---- MODULE Spec2Model ----
(***************************************************************************)
(* MealMatch: the Express proxy of backend/server.js (request handling,    *)
(* provider fan-out, error reporting) and the client state store of        *)
(* frontend/src/context/MealMatchContext.jsx (favorites, local or remote). *)
(***************************************************************************)
EXTENDS Integers, Sequences, FiniteSets, TLC

VARIABLES
    config,     \* server.js 11-17: which credentials the environment holds
    pc,         \* position of the request handler: idle, await, sent
    req,        \* the request being handled
    tasks,      \* the handler's pending promises, by name
    payload,    \* search/random: the payload object the tasks fill
    detail,     \* /api/video: the resolved detail and the prompt
    calls,      \* upstream requests issued (fetch, videos.create) for this request
    resp,       \* the response sent, or NoResp
    prompts,    \* every prompt built so far, with the name, ingredients and steps it
                \* was built from and the provider and preview flag of the request
    user,       \* AuthContext: session?.user ?? null
    favorites,  \* MealMatchContext: useState favorites
    favLocal,   \* localStorage[mealMatchFavorites], parsed
    favRemote,  \* rows of the remote favorites table, in insertion order
    toggles,    \* toggleFavorite calls in flight while signed in
    loading,    \* the loadFavorites effect's remote read in flight
    trail,      \* the toggles of one recipe that ran one after the other
    remoteErrors, \* whether a request to the remote table has come back with an error
    shoppingList, \* MealMatchContext: useState shoppingList
    shopLocal,  \* localStorage[mealMatchShoppingList], parsed
    shopLast,   \* the last shopping-list call: its name, argument and the list before it
    homeUser,   \* Home: the user its effects last ran with, or "unmounted"
    pantryItems, \* Home: useState pantryItems
    pantryLocal, \* localStorage[mealMatchPantry], parsed
    pantryRemote, \* rows of the remote pantry_items table, in insertion order
    pantryOps,  \* pantry handlers and loads of Home awaiting the remote table
    text,       \* a string handed to the two sanitizers
    cleaned,    \* what each of them returned for it, or NotCleaned
    auth,       \* AuthContext: which supabase export it uses, authLoading,
                \* authError and the signIn/signUp/signOut calls in flight
    search      \* Home: loading, randomLoading, error, infoMessage, recipes and
                \* the handleSearch/handleRandomRecipe calls in flight

backendVars == <<config, pc, req, tasks, payload, detail, calls, resp, prompts>>
textVars == <<text, cleaned>>
shopVars == <<shoppingList, shopLocal, shopLast>>
pantryVars == <<homeUser, pantryItems, pantryLocal, pantryRemote, pantryOps>>
\* the client state beside the user and the favorites
homeVars == <<auth, search>>
asideVars == <<textVars, shopVars, pantryVars, homeVars>>
favVars == <<favorites, favLocal, favRemote, toggles, loading, trail, remoteErrors>>
clientVars == <<user, favVars, asideVars>>
vars == <<config, pc, req, tasks, payload, detail, calls, resp, prompts,
          user, favorites, favLocal, favRemote, toggles, loading, trail,
          remoteErrors, shoppingList, shopLocal, shopLast, homeUser, pantryItems, pantryLocal,
          pantryRemote, pantryOps, text, cleaned, auth, search>>

-----------------------------------------------------------------------------
(* Bounds *)

\* recipes one provider call returns at most
MaxRecipes == 2
\* toggleFavorite calls in flight at once
MaxInflight == 2
\* row ids the remote favorites table hands out
MaxRowId == 2
\* remote reads of the loadFavorites effect in flight at once
MaxLoads == 1
\* characters of a string handed to the sanitizers
MaxText == 7
\* items handed to one addShoppingItems call
MaxItems == 2
\* names typed into the pantry field at once
MaxTokens == 2
\* rows of the pantry_items table
MaxPantryRows == 2
\* longest input typed into the ingredients box of the search form
MaxInput == 2

-----------------------------------------------------------------------------
(* JavaScript values of request parameters: undefined, a string, or (a     *)
(* repeated query parameter) an array of strings.  Text that is split and  *)
(* trimmed is a sequence of characters; text that is only compared is an   *)
(* atom.                                                                   *)

Absent == [k |-> "absent"]
Str(s) == [k |-> "str", v |-> s]
Arr(a) == [k |-> "arr", items |-> a]

IsAbsent(p) == p.k = "absent"
IsStr(p) == p.k = "str"
IsArr(p) == p.k = "arr"

\* JS truthiness of a parameter holding character text: undefined and ''
\* are falsy, a non-empty string and every array are truthy
Truthy(p) == IsArr(p) \/ (IsStr(p) /\ p.v # <<>>)

\* the same for atom text
TruthyAtom(p) == IsArr(p) \/ (IsStr(p) /\ p.v # "")

-----------------------------------------------------------------------------
(* String helpers of sanitizeCsv: split(','), trim(), filter(Boolean),     *)
(* join(',')                                                               *)

RECURSIVE SplitComma(_)
SplitComma(s) ==
    IF \A i \in 1..Len(s) : s[i] # ","
    THEN <<s>>
    ELSE LET i == CHOOSE n \in 1..Len(s) :
                      s[n] = "," /\ \A j \in 1..(n - 1) : s[j] # ","
         IN  <<SubSeq(s, 1, i - 1)>> \o SplitComma(SubSeq(s, i + 1, Len(s)))

RECURSIVE TrimStart(_)
TrimStart(s) ==
    IF s # <<>> /\ Head(s) = " " THEN TrimStart(Tail(s)) ELSE s

RECURSIVE TrimEnd(_)
TrimEnd(s) ==
    IF s # <<>> /\ s[Len(s)] = " " THEN TrimEnd(SubSeq(s, 1, Len(s) - 1)) ELSE s

Trim(s) == TrimEnd(TrimStart(s))

MapTrim(pieces) == [i \in 1..Len(pieces) |-> Trim(pieces[i])]

FilterNonEmpty(pieces) == SelectSeq(pieces, LAMBDA p : p # <<>>)

RECURSIVE JoinComma(_)
JoinComma(pieces) ==
    IF pieces = <<>> THEN <<>>
    ELSE IF Len(pieces) = 1 THEN pieces[1]
    ELSE pieces[1] \o <<",">> \o JoinComma(Tail(pieces))

\* the filter applied before the trim: a piece of blanks is kept, empty
SanitizeTextFiltersFirst(s) == JoinComma(MapTrim(FilterNonEmpty(SplitComma(s))))

\* the filter left out: empty pieces are joined too
SanitizeTextKeepsEmpty(s) == JoinComma(MapTrim(SplitComma(s)))

\* server.js 81-86 on a string
SanitizeText(s) == JoinComma(FilterNonEmpty(MapTrim(SplitComma(s))))

\* sanitizeCsv(value = ''): an array has no split method, the call throws
SanitizeCsvThrows(p) == IsArr(p)

sanitizeCsv(p) == IF IsAbsent(p) THEN SanitizeText(<<>>) ELSE SanitizeText(p.v)

-----------------------------------------------------------------------------
(* normalizeSource (server.js 73-79)                                       *)

RECURSIVE JoinAtoms(_)
JoinAtoms(items) ==
    IF items = <<>> THEN ""
    ELSE IF Len(items) = 1 THEN items[1]
    ELSE items[1] \o "," \o JoinAtoms(Tail(items))

\* String.prototype.toLowerCase on the source texts the model sends
ToLowerCase(s) ==
    CASE s = "MealDB" -> "mealdb"
      [] s = "SPOONACULAR" -> "spoonacular"
      [] s = "Both" -> "both"
      [] s = "Rice" -> "rice"
      [] OTHER -> s

\* value.toString(): a string is itself, an array is its items joined by ','
ToStringJs(p) == IF IsArr(p) THEN JoinAtoms(p.items) ELSE p.v

normalizeSource(p) ==
    LET value == IF IsAbsent(p) THEN "both" ELSE ToLowerCase(ToStringJs(p))
    IN  IF value \in {"mealdb", "spoonacular", "both"} THEN value ELSE "both"

\* a destructuring default: `{ source = d } = req.query`
WithDefault(p, d) == IF IsAbsent(p) THEN Str(d) ELSE p

-----------------------------------------------------------------------------
(* JSON values the providers answer with *)

JNull == [t |-> "null"]
JArr(s) == [t |-> "arr", items |-> s]
JObj == [t |-> "obj"]

\* `x ?? []` on a value that is null or an array
NullishOrEmpty(j) == IF j.t = "null" THEN <<>> ELSE j.items

\* `Array.isArray(x) ? x : []`
ArrayOrEmpty(j) == IF j.t = "arr" THEN j.items ELSE <<>>

\* one entry of TheMealDB's filter.php / random.php answer
MealDbMeal(i) == [idMeal |-> i, strMeal |-> "meal", strMealThumb |-> "img"]

\* one entry of Spoonacular's findByIngredients answer
FindResult(i) ==
    [id |-> i, title |-> "recipe", image |-> "img",
     usedIngredients |-> <<"a">>, missedIngredients |-> <<"b">>, likes |-> 3]

\* one entry of Spoonacular's complexSearch results (addRecipeInformation)
ComplexEntry(i) ==
    [id |-> i, title |-> "recipe", image |-> "img", servings |-> 2,
     extendedIngredients |-> <<"a">>, vegetarian |-> TRUE]

\* one entry of Spoonacular's random answer
RandomRecipe(i) == [id |-> i, title |-> "recipe", image |-> "img"]

FirstN(n, F(_)) == [i \in 1..n |-> F(i)]

SimpleCardFields == {"id", "title", "image", "sourceUrl", "readyInMinutes", "servings"}
ListCardFields == {"usedIngredients", "missedIngredients", "unusedIngredients"}

\* server.js 88-98; a field that is undefined is left out of the JSON
mapComplexSearchResult(entry) ==
    [f \in (SimpleCardFields \cap DOMAIN entry) \cup ListCardFields |->
        IF f = "usedIngredients"
        THEN IF "usedIngredients" \in DOMAIN entry THEN entry.usedIngredients
             ELSE IF "extendedIngredients" \in DOMAIN entry
                  THEN entry.extendedIngredients ELSE <<>>
        ELSE IF f \in ListCardFields
        THEN IF f \in DOMAIN entry THEN entry[f] ELSE <<>>
        ELSE entry[f]]

MapSeq(s, F(_)) == [i \in 1..Len(s) |-> F(s[i])]

-----------------------------------------------------------------------------
(* What an upstream HTTP exchange can end in, and fetchJson (server.js     *)
(* 22-29) on it                                                            *)

Ok(b) == [k |-> "ok", body |-> b]
Http(s) == [k |-> "http", status |-> s]
Net == [k |-> "net"]

\* the exchange fails: a non-2xx status, or fetch itself rejects
FailureOutcomes == {Http(500), Net}

RequestFailed(status) == "Request failed (" \o ToString(status) \o ")"

\* the value fetchJson resolves with, or the message of the Error it throws
Value(v) == [t |-> "val", v |-> v]
Thrown(m) == [t |-> "err", error |-> m]

fetchJson(o) ==
    IF o.k = "ok" THEN Value(o.body)
    ELSE IF o.k = "http" THEN Thrown(RequestFailed(o.status))
    ELSE Thrown("fetch failed")

\* the provider catalogs: recipe 1 exists at TheMealDB only, recipe 2 at
\* Spoonacular only, recipe 9 nowhere; the two recipes have the same name,
\* ingredients and steps
MealDbCatalog == {1}
SpoonCatalog == {2}
DetailIds == {1, 2, 9}

MealDbDetail(id, withSteps) ==
    [idMeal |-> id, strMeal |-> "Meal",
     ings |-> <<[name |-> "rice", measure |-> "1 cup"], [name |-> "", measure |-> ""]>>,
     lines |-> IF withSteps THEN <<"boil", "">> ELSE <<>>]

SpoonDetail(id, withSteps) ==
    [id |-> id, title |-> "Meal",
     extendedIngredients |-> <<[original |-> "1 cup rice"]>>,
     steps |-> IF withSteps THEN <<"boil">> ELSE <<>>]

\* the outcomes of one call, by call site
Outcomes(site, id) ==
    FailureOutcomes \cup
    CASE site \in {"mealdb:filter", "mealdb:random", "mealdb:area"} ->
            {Ok([meals |-> JNull])} \cup
            {Ok([meals |-> JArr(FirstN(n, MealDbMeal))]) : n \in 1..MaxRecipes}
      [] site = "spoon:findByIngredients" ->
            {Ok(JObj)} \cup {Ok(JArr(FirstN(n, FindResult))) : n \in 0..MaxRecipes}
      [] site = "spoon:complexSearch" ->
            {Ok([results |-> JNull])} \cup
            {Ok([results |-> JArr(FirstN(n, ComplexEntry))]) : n \in 0..MaxRecipes}
      [] site = "spoon:random" ->
            {Ok([recipes |-> JNull])} \cup
            {Ok([recipes |-> JArr(FirstN(n, RandomRecipe))]) : n \in 1..1}
      [] site = "mealdb:lookup" ->
            IF id \in MealDbCatalog
            THEN {Ok([meals |-> JArr(<<MealDbDetail(id, w)>>)]) : w \in BOOLEAN}
            ELSE {Ok([meals |-> JNull])}
      [] site = "spoon:information" ->
            IF id \in SpoonCatalog
            THEN {Ok(SpoonDetail(id, w)) : w \in BOOLEAN}
            ELSE {Http(404)}
      [] site = "openai:videos" -> {Ok([id |-> "video_1", status |-> "queued"])}
      [] OTHER -> {Ok(JArr(<<>>))}

-----------------------------------------------------------------------------
(* Call sites *)

\* a task: its call site, whether its request went out, the message of an
\* Error thrown before that, and once settled what the upstream answered
\* and whether the call failed
NoOutcome == [k |-> "none"]

NoTask ==
    [st |-> "none", site |-> "none", issued |-> FALSE, thrown |-> "",
     outcome |-> NoOutcome, failed |-> FALSE]

NoTasks == [t \in {"mealdb", "spoonacular", "single", "video"} |-> NoTask]

Pending(site) ==
    [NoTask EXCEPT !.st = "pending", !.site = site, !.issued = TRUE]

\* the async function threw before any request was sent
ThrewEarly(site, msg) ==
    [NoTask EXCEPT !.st = "pending", !.site = site, !.thrown = msg]

\* fetchFromMealDb (server.js 31): no credential
MealDbCall(site) == Pending(site)

\* fetchFromSpoonacular (server.js 33-47): buildSpoonacularUrl throws
\* without a key, before fetchJson is called
SpoonCall(site) ==
    IF config.spoon THEN Pending(site)
    ELSE ThrewEarly(site, "Spoonacular API key is not configured")

\* fetchFromUsda (server.js 48-62)
UsdaCall(site) ==
    IF config.usda THEN Pending(site)
    ELSE ThrewEarly(site, "USDA API key is not configured")

\* the requests a started task puts on the wire: one fetch per call site
Sent(task) == IF task.issued THEN <<task.site>> ELSE <<>>

\* withSafeFetch (server.js 64-71) around a task that has settled with
\* upstream outcome o: the value, or {error: message}
withSafeFetch(task, o) ==
    IF ~task.issued THEN Thrown(task.thrown) ELSE fetchJson(o)

Settled(task, o) ==
    [task EXCEPT !.st = "settled",
                 !.outcome = IF task.issued THEN o ELSE NoOutcome,
                 !.failed = (withSafeFetch(task, o).t = "err")]

-----------------------------------------------------------------------------
(* Requests *)

BaseReq(ep) ==
    [ep |-> ep, ingredients |-> Absent, source |-> Absent, diet |-> Absent,
     intolerances |-> Absent, tags |-> Absent, query |-> Absent, id |-> 0,
     hasBody |-> FALSE, recipeId |-> Absent, preview |-> FALSE]

IngredientInputs ==
    {Absent, Str(<<>>), Str(<<" ", ",">>), Str(<<"a">>),
     Str(<<"a", ",", " ", ",", "b", ",">>), Arr(<<<<"a">>, <<"b">>>>)}

SourceInputs ==
    {Absent, Str("mealdb"), Str("spoonacular"), Str("both"), Str("MealDB"),
     Str("SPOONACULAR"), Str("other"), Arr(<<"mealdb", "spoonacular">>)}

FilterInputs == {Absent, Str(<<"v">>)}

TagInputs == {Absent, Str(<<"v">>), Arr(<<<<"v">>, <<"w">>>>)}

QueryInputs == {Absent, Str(<<>>), Str(<<"a">>), Arr(<<<<"a">>, <<"b">>>>)}

\* a JSON value of the body: a recipe id, or 0 (falsy)
Val(v) == [k |-> "val", v |-> v]
RecipeIdInputs == {Absent} \cup {Val(i) : i \in DetailIds \cup {0}}

RecipesRequests ==
    {[BaseReq("recipes") EXCEPT !.ingredients = i, !.source = s, !.diet = d,
                                !.intolerances = t] :
        i \in IngredientInputs, s \in SourceInputs, d \in FilterInputs,
        t \in FilterInputs}

RandomRequests ==
    {[BaseReq("random") EXCEPT !.source = s, !.tags = t, !.diet = d] :
        s \in SourceInputs, t \in TagInputs, d \in TagInputs}

DetailRequests ==
    {[BaseReq("detail") EXCEPT !.id = i, !.source = s] :
        i \in DetailIds, s \in SourceInputs}

VideoRequests ==
    {BaseReq("video")} \cup
    {[BaseReq("video") EXCEPT !.hasBody = TRUE, !.recipeId = i, !.source = s,
                              !.preview = p] :
        i \in RecipeIdInputs, s \in {Absent, Str("spoonacular"), Str("both")},
        p \in BOOLEAN}

SearchProxyRequests ==
    {[BaseReq("spsearch") EXCEPT !.query = q, !.diet = d, !.intolerances = t] :
        q \in QueryInputs, d \in FilterInputs, t \in FilterInputs}

QueryRequests(ep) == {[BaseReq(ep) EXCEPT !.query = q] : q \in QueryInputs}

-----------------------------------------------------------------------------
(* Responses *)

NoResp == [status |-> 0, json |-> FALSE, body |-> [none |-> TRUE]]

\* res.status(s).json(body)
Json(s, body) == [status |-> s, json |-> TRUE, body |-> body]

\* Express 5 hands a rejected handler promise to its default error handler:
\* status 500 and an HTML page, not a JSON body of the application
GenericError(msg) == [status |-> 500, json |-> FALSE, body |-> [exception |-> msg]]

NoErrors == [x \in {} |-> ""]

NoPayload == [source |-> "none", mealdb |-> <<>>, spoonacular |-> <<>>, errors |-> NoErrors]

NoDetail == [none |-> TRUE]

\* a slip in the status choice: 404 and 502 the wrong way round
FanInStatusSwapped(p) ==
    IF Len(p.mealdb) = 0 /\ Len(p.spoonacular) = 0
    THEN IF DOMAIN p.errors # {} THEN 404 ELSE 502
    ELSE 200

\* server.js 255-260 and 340-345
FanInStatus(p) ==
    IF Len(p.mealdb) = 0 /\ Len(p.spoonacular) = 0
    THEN IF DOMAIN p.errors # {} THEN 502 ELSE 404
    ELSE 200

FanInResponse(p, notFound) ==
    IF FanInStatus(p) = 200 THEN Json(200, p)
    ELSE Json(FanInStatus(p), [error |-> notFound, details |-> p])

\* the handler returns without awaiting anything
Reply(r, response) ==
    /\ req' = r
    /\ resp' = response
    /\ pc' = "sent"
    /\ UNCHANGED <<clientVars, prompts, config, tasks, payload, detail, calls>>

\* the handler starts its tasks and awaits them
Await(r, newTasks, newPayload) ==
    /\ req' = r
    /\ tasks' = newTasks
    /\ payload' = newPayload
    /\ calls' = calls \o Sent(newTasks["mealdb"]) \o Sent(newTasks["spoonacular"])
                      \o Sent(newTasks["single"])
    /\ pc' = "await"
    /\ UNCHANGED <<clientVars, prompts, config, detail, resp>>

-----------------------------------------------------------------------------
(* GET /api/recipes (server.js 187-261) *)

includeMealDb(selectedSource) == selectedSource \in {"mealdb", "both"}
\* Spoonacular asked whatever the source
includeSpoonacularAlways(selectedSource) == TRUE
includeSpoonacular(selectedSource) == selectedSource \in {"spoonacular", "both"}

\* server.js 223-243: complexSearch with a diet filter, else findByIngredients
SpoonSearchSite(r) ==
    IF Truthy(r.diet) \/ Truthy(r.intolerances)
    THEN "spoon:complexSearch"
    ELSE "spoon:findByIngredients"

RecipesTasks(r) ==
    LET selectedSource == normalizeSource(r.source)
    IN  [NoTasks EXCEPT
            !["mealdb"] = IF includeMealDb(selectedSource)
                          THEN MealDbCall("mealdb:filter") ELSE NoTask,
            !["spoonacular"] = IF includeSpoonacular(selectedSource)
                               THEN SpoonCall(SpoonSearchSite(r)) ELSE NoTask]

RecipesStart(r) ==
    /\ pc = "idle"
    /\ r \in RecipesRequests
    /\ IF SanitizeCsvThrows(r.ingredients)
       THEN Reply(r, GenericError("value.split is not a function"))
       ELSE IF sanitizeCsv(r.ingredients) = <<>>
       THEN Reply(r, Json(400, [error |-> "Ingredients query parameter is required"]))
       ELSE Await(r, RecipesTasks(r),
                  [NoPayload EXCEPT !.source = normalizeSource(r.source)])

(* GET /api/random (server.js 293-346) *)

\* server.js 324: sanitizeCsv(tags) || sanitizeCsv(diet) inside the task
RandomTagsThrow(r) ==
    \/ SanitizeCsvThrows(r.tags)
    \/ (sanitizeCsv(r.tags) = <<>> /\ SanitizeCsvThrows(r.diet))

\* the source parameter ignored: both providers asked whatever it says
RandomTasksAskBoth(r) ==
    [NoTasks EXCEPT
        !["mealdb"] = MealDbCall("mealdb:random"),
        !["spoonacular"] = IF RandomTagsThrow(r)
                           THEN ThrewEarly("spoon:random", "value.split is not a function")
                           ELSE SpoonCall("spoon:random")]

RandomTasks(r) ==
    LET selectedSource == normalizeSource(WithDefault(r.source, "mealdb"))
    IN  [NoTasks EXCEPT
            !["mealdb"] = IF includeMealDb(selectedSource)
                          THEN MealDbCall("mealdb:random") ELSE NoTask,
            !["spoonacular"] =
                IF ~includeSpoonacular(selectedSource) THEN NoTask
                ELSE IF RandomTagsThrow(r)
                THEN ThrewEarly("spoon:random", "value.split is not a function")
                ELSE SpoonCall("spoon:random")]

RandomStart(r) ==
    /\ pc = "idle"
    /\ r \in RandomRequests
    /\ Await(r, RandomTasks(r),
             [NoPayload EXCEPT
                !.source = normalizeSource(WithDefault(r.source, "mealdb"))])

\* what a provider task stores in its field of the payload
Extract(site, body) ==
    CASE site \in {"mealdb:filter", "mealdb:random"} -> NullishOrEmpty(body.meals)
      [] site = "spoon:findByIngredients" -> ArrayOrEmpty(body)
      [] site = "spoon:complexSearch" ->
            MapSeq(ArrayOrEmpty(body.results), mapComplexSearchResult)
      [] site = "spoon:random" -> NullishOrEmpty(body.recipes)

\* a retry: the failed request is sent once more
ReissuedOnFailure(task, result) ==
    IF task.issued /\ result.t = "err" THEN <<task.site>> ELSE <<>>

\* the catch of withSafeFetch returns the error: nothing is sent again
Reissued(task, result) == <<>>

\* a failure that is not isolated: the error of one task empties both arrays
RecordResultFailsAll(p, provider, site, result) ==
    IF result.t = "err"
    THEN [p EXCEPT !.errors = (provider :> result.error) @@ @,
                   !.mealdb = <<>>, !.spoonacular = <<>>]
    ELSE [p EXCEPT ![provider] = Extract(site, result.v)]

\* a failure that is swallowed: the error is not recorded
RecordResultDropsError(p, provider, site, result) ==
    IF result.t = "err" THEN p
    ELSE [p EXCEPT ![provider] = Extract(site, result.v)]

\* the .then of a provider task (server.js 212-216, 245-249, 313-317, 330-334)
\* one error slot for both tasks: the error that comes last replaces the map
RecordResultReplacesErrors(p, provider, site, result) ==
    IF result.t = "err"
    THEN IF result.error # ""
         THEN [p EXCEPT !.errors = (provider :> result.error)]
         ELSE p
    ELSE [p EXCEPT ![provider] = Extract(site, result.v)]

RecordResult(p, provider, site, result) ==
    IF result.t = "err"
    THEN IF result.error # ""
         THEN [p EXCEPT !.errors = (provider :> result.error) @@ @]
         ELSE p
    ELSE [p EXCEPT ![provider] = Extract(site, result.v)]

\* one provider task of search or random settles
ProviderSettle(provider, o) ==
    /\ pc = "await"
    /\ req.ep \in {"recipes", "random"}
    /\ provider \in {"mealdb", "spoonacular"}
    /\ tasks[provider].st = "pending"
    /\ o \in (IF tasks[provider].issued THEN Outcomes(tasks[provider].site, 0) ELSE {Net})
    /\ LET result == withSafeFetch(tasks[provider], o)
       IN  /\ payload' = RecordResult(payload, provider, tasks[provider].site, result)
           /\ tasks' = [tasks EXCEPT ![provider] = Settled(@, o)]
           /\ calls' = calls \o Reissued(tasks[provider], result)
    /\ UNCHANGED <<clientVars, prompts, config, pc, req, detail, resp>>

\* a race instead of a join: the first task to settle releases the handler
AnySettled == \E t \in DOMAIN tasks : tasks[t].st = "settled"

\* Promise.all(tasks) is fulfilled when no task is pending
AllSettled == \A t \in DOMAIN tasks : tasks[t].st # "pending"

\* server.js 253-260 and 338-345
FanInRespond ==
    /\ pc = "await"
    /\ req.ep \in {"recipes", "random"}
    /\ AllSettled
    /\ resp' = FanInResponse(payload, IF req.ep = "recipes" THEN "No recipes found"
                                      ELSE "No random recipes available")
    /\ pc' = "sent"
    /\ UNCHANGED <<clientVars, prompts, config, req, tasks, payload, detail, calls>>

-----------------------------------------------------------------------------
(* getMealDetail (server.js 100-112) *)

\* the preference compared as written, letter case included
DetailSourceExact(sourcePreference) ==
    IF IsStr(sourcePreference) /\ sourcePreference.v = "spoonacular"
    THEN "spoonacular" ELSE "mealdb"

\* the provider getMealDetail resolves from
DetailSource(sourcePreference) ==
    LET p == IF IsStr(sourcePreference) /\ sourcePreference.v = "both"
             THEN Str("mealdb") ELSE sourcePreference
    IN  IF normalizeSource(p) = "spoonacular" THEN "spoonacular" ELSE "mealdb"

DetailCall(sourcePreference) ==
    IF DetailSource(sourcePreference) = "spoonacular"
    THEN SpoonCall("spoon:information")
    ELSE MealDbCall("mealdb:lookup")

\* what getMealDetail returns or throws once its fetch has settled
getMealDetail(task, o) ==
    LET fetched == withSafeFetch(task, o)
    IN  IF fetched.t = "err" THEN fetched
        ELSE IF task.site = "spoon:information"
        THEN Value([source |-> "spoonacular", meal |-> fetched.v])
        ELSE LET meals == NullishOrEmpty(fetched.v.meals)
             IN  IF meals = <<>> THEN Thrown("Recipe not found")
                 ELSE Value([source |-> "mealdb", meal |-> meals[1]])

\* every detail error reported as not found
DetailErrorAlways404(error) == 404

\* server.js 268 and 410
DetailErrorStatus(error) == IF error = "Recipe not found" THEN 404 ELSE 502

\* the single call of the handler has settled
SettleSingle(o) ==
    /\ tasks' = [tasks EXCEPT !["single"] = Settled(@, o)]
    /\ calls' = calls \o Reissued(tasks["single"], withSafeFetch(tasks["single"], o))

SingleOutcomes ==
    IF tasks["single"].issued THEN Outcomes(tasks["single"].site, req.id) ELSE {Net}

(* GET /api/recipes/:id (server.js 263-272) *)

DetailStart(r) ==
    /\ pc = "idle"
    /\ r \in DetailRequests
    /\ Await(r, [NoTasks EXCEPT !["single"] = DetailCall(WithDefault(r.source, "mealdb"))],
             NoPayload)

DetailSettle(o) ==
    /\ pc = "await"
    /\ req.ep = "detail"
    /\ tasks["single"].st = "pending"
    /\ o \in SingleOutcomes
    /\ LET result == getMealDetail(tasks["single"], o)
       IN  /\ SettleSingle(o)
           /\ resp' = IF result.t = "err"
                      THEN Json(DetailErrorStatus(result.error), [error |-> result.error])
                      ELSE Json(200, result.v)
    /\ pc' = "sent"
    /\ UNCHANGED <<clientVars, prompts, config, req, payload, detail>>

(* The pass-through handlers: /api/cuisines (274-280), /api/recipes/area   *)
(* (282-291), /api/spoonacular/autocomplete (348-360),                     *)
(* /api/spoonacular/search (362-382), /api/usda/search (384-400)           *)

CuisinesStart ==
    /\ pc = "idle"
    /\ Await(BaseReq("cuisines"), [NoTasks EXCEPT !["single"] = MealDbCall("mealdb:list")],
             NoPayload)

AreaStart ==
    /\ pc = "idle"
    /\ Await(BaseReq("area"), [NoTasks EXCEPT !["single"] = MealDbCall("mealdb:area")],
             NoPayload)

AutocompleteStart(r) ==
    /\ pc = "idle"
    /\ r \in QueryRequests("autocomplete")
    /\ IF ~Truthy(r.query)
       THEN Reply(r, Json(400, [error |-> "Query parameter is required"]))
       ELSE Await(r, [NoTasks EXCEPT !["single"] = SpoonCall("spoon:autocomplete")],
                  NoPayload)

SearchProxyStart(r) ==
    /\ pc = "idle"
    /\ r \in SearchProxyRequests
    /\ IF ~Truthy(r.query) /\ ~Truthy(r.diet) /\ ~Truthy(r.intolerances)
       THEN Reply(r, Json(400,
                [error |-> "Provide at least one of query, diet, or intolerances to search."]))
       ELSE Await(r, [NoTasks EXCEPT !["single"] = SpoonCall("spoon:complexSearch")],
                  NoPayload)

UsdaStart(r) ==
    /\ pc = "idle"
    /\ r \in QueryRequests("usda")
    /\ IF ~Truthy(r.query)
       THEN Reply(r, Json(400, [error |-> "Query parameter is required"]))
       ELSE Await(r, [NoTasks EXCEPT !["single"] = UsdaCall("usda:search")], NoPayload)

PassThroughSettle(o) ==
    /\ pc = "await"
    /\ req.ep \in {"cuisines", "area", "autocomplete", "spsearch", "usda"}
    /\ tasks["single"].st = "pending"
    /\ o \in SingleOutcomes
    /\ LET result == withSafeFetch(tasks["single"], o)
       IN  /\ SettleSingle(o)
           /\ resp' = IF result.t = "err"
                      THEN Json(502, [error |-> result.error])
                      ELSE Json(200, result.v)
    /\ pc' = "sent"
    /\ UNCHANGED <<clientVars, prompts, config, req, payload, detail>>

-----------------------------------------------------------------------------
(* POST /api/video (server.js 402-446) *)

\* server.js 114-133
normalizeMealIngredients(meal, source) ==
    IF source = "spoonacular"
    THEN LET texts == [i \in 1..Len(meal.extendedIngredients) |->
                          meal.extendedIngredients[i].original]
         IN  SelectSeq(texts, LAMBDA x : x # "")
    ELSE LET named == SelectSeq(meal.ings, LAMBDA g : g.name # "")
         IN  [i \in 1..Len(named) |->
                IF named[i].measure # ""
                THEN named[i].measure \o " " \o named[i].name
                ELSE named[i].name]

\* server.js 135-154
normalizeMealSteps(meal, source) ==
    IF source = "spoonacular"
    THEN SelectSeq(meal.steps, LAMBDA x : x # "")
    ELSE SelectSeq(meal.lines, LAMBDA x : x # "")

\* server.js 414-415
RecipeName(d) ==
    IF d.source = "spoonacular" THEN d.meal.title
    ELSE IF d.meal.strMeal # "" THEN d.meal.strMeal ELSE "MealMatch Recipe"

\* a prompt that says how it was asked for
buildSoraPromptTagged(recipeName, ingredients, steps) ==
    [recipe |-> recipeName,
     ingredientsList |-> [i \in 1..Len(ingredients) |-> "- " \o ingredients[i]],
     stepsList |-> [i \in 1..Len(steps) |-> ToString(i) \o ". " \o steps[i]],
     preview |-> req.preview]

\* server.js 156-185: the fixed template around the name and the two lists
buildSoraPrompt(recipeName, ingredients, steps) ==
    [recipe |-> recipeName,
     ingredientsList |-> [i \in 1..Len(ingredients) |-> "- " \o ingredients[i]],
     stepsList |-> [i \in 1..Len(steps) |-> ToString(i) \o ". " \o steps[i]]]

\* the preview flag ignored
PreviewOnlyWithoutKey(r) == ~config.openai

\* the missing key ignored
PreviewOnlyOnRequest(r) == r.preview

\* server.js 425: preview || !openaiClient
PreviewOnly(r) == r.preview \/ ~config.openai

\* `!recipeId`
RecipeIdMissing(p) == IsAbsent(p) \/ p.v = 0

VideoStart(r) ==
    /\ pc = "idle"
    /\ r \in VideoRequests
    /\ IF ~r.hasBody
       THEN Reply(r, GenericError("Cannot destructure property 'recipeId' of 'req.body'"))
       ELSE IF RecipeIdMissing(r.recipeId)
       THEN Reply(r, Json(400, [error |-> "recipeId is required"]))
       ELSE Await([r EXCEPT !.id = r.recipeId.v],
                  [NoTasks EXCEPT !["single"] = DetailCall(WithDefault(r.source, "mealdb"))],
                  NoPayload)

\* server.js 408-432: the detail has settled
VideoDetailSettle(o) ==
    /\ pc = "await"
    /\ req.ep = "video"
    /\ tasks["single"].st = "pending"
    /\ o \in SingleOutcomes
    /\ LET result == getMealDetail(tasks["single"], o)
           d == result.v
           ingredients == normalizeMealIngredients(d.meal, d.source)
           steps == normalizeMealSteps(d.meal, d.source)
           soraPrompt == buildSoraPrompt(RecipeName(d), ingredients, steps)
           built == [recipeName |-> RecipeName(d), ingredients |-> ingredients,
                     steps |-> steps, prompt |-> soraPrompt,
                     source |-> d.source, preview |-> req.preview]
       IN  IF result.t = "err"
           THEN /\ SettleSingle(o)
                /\ resp' = Json(DetailErrorStatus(result.error), [error |-> result.error])
                /\ pc' = "sent"
                /\ UNCHANGED <<detail, prompts>>
           ELSE IF ingredients = <<>> \/ steps = <<>>
           THEN /\ SettleSingle(o)
                /\ resp' = Json(400,
                      [error |-> "Recipe is missing ingredients or steps for video generation"])
                /\ pc' = "sent"
                /\ UNCHANGED <<detail, prompts>>
           ELSE IF PreviewOnly(req)
           THEN /\ SettleSingle(o)
                /\ resp' = Json(200, [prompt |-> soraPrompt, video |-> JNull,
                                      preview |-> TRUE, missingApiKey |-> ~config.openai])
                /\ pc' = "sent"
                /\ detail' = [prompt |-> soraPrompt]
                /\ prompts' = prompts \cup {built}
           ELSE /\ tasks' = [tasks EXCEPT !["single"] = Settled(@, o),
                                          !["video"] = Pending("openai:videos")]
                /\ calls' = calls \o Sent(Pending("openai:videos"))
                /\ detail' = [prompt |-> soraPrompt]
                /\ prompts' = prompts \cup {built}
                /\ UNCHANGED <<pc, resp>>
    /\ UNCHANGED <<clientVars, config, req, payload>>

\* server.js 434-445: openaiClient.videos.create has settled
VideoSettle(o) ==
    /\ pc = "await"
    /\ req.ep = "video"
    /\ tasks["video"].st = "pending"
    /\ o \in Outcomes("openai:videos", 0)
    /\ LET result == withSafeFetch(tasks["video"], o)
       IN  /\ tasks' = [tasks EXCEPT !["video"] = Settled(@, o)]
           /\ calls' = calls \o Reissued(tasks["video"], result)
           /\ resp' = IF result.t = "err"
                      THEN Json(502, [error |-> "Failed to generate video",
                                      details |-> result.error, prompt |-> detail.prompt])
                      ELSE Json(200, [prompt |-> detail.prompt, video |-> result.v])
    /\ pc' = "sent"
    /\ UNCHANGED <<clientVars, prompts, config, req, payload, detail>>

\* the server is ready for the next request; no state is kept between requests
NextRequest ==
    /\ pc = "sent"
    /\ pc' = "idle"
    /\ req' = BaseReq("none")
    /\ tasks' = NoTasks
    /\ payload' = NoPayload
    /\ detail' = NoDetail
    /\ calls' = <<>>
    /\ resp' = NoResp
    /\ UNCHANGED <<clientVars, prompts, config>>

-----------------------------------------------------------------------------
(* The client state store: favorites (MealMatchContext.jsx 11-134).  A     *)
(* favorite is kept here by the fields that decide its identity: source,   *)
(* id and, on entries read from the remote table, _supabaseId (sid).       *)
(* title, image and sourceUrl are carried along unchanged.                 *)

Null == [none |-> TRUE]

StrId(n) == [t |-> "str", v |-> n]
NumId(n) == [t |-> "num", v |-> n]

\* the recipes a user can toggle: a TheMealDB card, a Spoonacular card (its
\* id is a number), a raw TheMealDB meal, and an item with neither id
Summaries ==
    {[source |-> "mealdb", id |-> StrId(1)],
     [source |-> "spoonacular", id |-> NumId(1)],
     [idMeal |-> StrId(1)],
     [title |-> "untitled"]}

\* MealMatchContext.jsx 201-222
normalizeFavorite(item) ==
    IF "source" \in DOMAIN item /\ "id" \in DOMAIN item
    THEN [id |-> item.id, source |-> item.source]
    ELSE IF "idMeal" \in DOMAIN item
    THEN [id |-> item.idMeal, source |-> "mealdb"]
    ELSE Null

\* MealMatchContext.jsx 199: `${favorite.source}-${favorite.id}`
buildFavoriteKey(favorite) == favorite.source \o "-" \o ToString(favorite.id.v)

HasKey(favs, key) == \E i \in 1..Len(favs) : buildFavoriteKey(favs[i]) = key

\* favorites.find(...): the first entry with the key
FindByKey(favs, key) ==
    favs[CHOOSE i \in 1..Len(favs) :
            /\ buildFavoriteKey(favs[i]) = key
            /\ \A j \in 1..(i - 1) : buildFavoriteKey(favs[j]) # key]

\* a double insert: the entry is appended although its key is present
ToggleLocalAlwaysAdds(prev, normalized) == Append(prev, normalized)

\* MealMatchContext.jsx 92-97: the updater of the signed-out branch
ToggleLocalList(prev, normalized) ==
    IF HasKey(prev, buildFavoriteKey(normalized))
    THEN SelectSeq(prev, LAMBDA f : buildFavoriteKey(f) # buildFavoriteKey(normalized))
    ELSE Append(prev, normalized)

\* MealMatchContext.jsx 36-40: JSON.parse(stored).map(normalizeFavorite)
LoadLocal(stored) == [i \in 1..Len(stored) |-> normalizeFavorite(stored[i])]

\* the rows of one user, newest first (.eq('user_id', ...).order('inserted_at',
\* {ascending: false})); favRemote is kept in insertion order
RECURSIVE Reverse(_)
Reverse(seq) == IF seq = <<>> THEN <<>> ELSE Append(Reverse(Tail(seq)), Head(seq))

SelectFavorites(rows, uid) == Reverse(SelectSeq(rows, LAMBDA r : r.user_id = uid))

\* MealMatchContext.jsx 58-65 and 125-132
RowToFavorite(row) == [id |-> row.recipe_id, source |-> row.source, sid |-> row.id]

RowsToFavorites(rows) == [i \in 1..Len(rows) |-> RowToFavorite(rows[i])]

\* gen_random_uuid(): an id no row and no reference to a row holds
UsedRowIds ==
    {favRemote[i].id : i \in 1..Len(favRemote)}
    \cup {favorites[i].sid : i \in {j \in 1..Len(favorites) : "sid" \in DOMAIN favorites[j]}}
    \cup {favLocal[i].sid : i \in {j \in 1..Len(favLocal) : "sid" \in DOMAIN favLocal[j]}}
    \cup {toggles[i].sid : i \in {j \in 1..Len(toggles) : toggles[j].op = "delete"}}

FreshRowId == CHOOSE n \in 1..(Cardinality(UsedRowIds) + 1) : n \notin UsedRowIds

\* the inserts that are on their way
PendingInserts == Cardinality({i \in 1..Len(toggles) :
                                  toggles[i].step = "write" /\ toggles[i].op = "insert"})

\* the insert of MealMatchContext.jsx 107-114; recipe_id is a text column
InsertRow(rows, uid, normalized) ==
    Append(rows, [id |-> FreshRowId, user_id |-> uid,
                  recipe_id |-> StrId(normalized.id.v), source |-> normalized.source])

\* .delete().eq('id', existing._supabaseId)
DeleteRow(rows, sid) == SelectSeq(rows, LAMBDA r : r.id # sid)

RemoveAt(seq, i) == SubSeq(seq, 1, i - 1) \o SubSeq(seq, i + 1, Len(seq))

KeysOf(favs) == {buildFavoriteKey(favs[i]) : i \in 1..Len(favs)}

UniqueKeys(favs) ==
    \A i \in 1..Len(favs), j \in 1..Len(favs) :
        buildFavoriteKey(favs[i]) = buildFavoriteKey(favs[j]) => i = j

\* the favorites of one user as the remote table holds them
RemoteFavorites(uid) == RowsToFavorites(SelectFavorites(favRemote, uid))

\* the effect stores favorites only for a signed-in user
PersistedWhenSignedIn(u, favs, stored) == IF u # "none" THEN favs ELSE stored

\* MealMatchContext.jsx 71-75: the effect that persists favorites while no
\* user is signed in
Persisted(u, favs, stored) == IF u = "none" THEN favs ELSE stored

NothingInFlight == toggles = <<>> /\ loading = <<>>

\* The trail: the toggles of one recipe that ran one after the other with
\* nothing else in between.  before: the favorite set when the first one
\* started; n: how many have finished; clean: no remote request of theirs
\* failed; back: the set after the second one equals before.
NoTrail ==
    [key |-> "", scope |-> "", before |-> {}, unique |-> TRUE, n |-> 0,
     busy |-> FALSE, clean |-> TRUE, back |-> FALSE]

TrailStart(key, scope, set, unique) ==
    IF NothingInFlight /\ trail.n = 1 /\ trail.key = key /\ trail.scope = scope
    THEN [trail EXCEPT !.busy = TRUE]
    ELSE IF NothingInFlight
    THEN [NoTrail EXCEPT !.key = key, !.scope = scope, !.before = set,
                         !.unique = unique, !.busy = TRUE]
    ELSE NoTrail

TrailStep(t, ok) == IF t.busy THEN [t EXCEPT !.clean = @ /\ ok] ELSE t

TrailEnd(t, set) ==
    IF t.busy
    THEN [t EXCEPT !.busy = FALSE, !.n = @ + 1, !.back = (t.n = 1 /\ set = t.before)]
    ELSE NoTrail

\* a listener that is called whichever export is in use
ListenerCalledAlways(a) == TRUE

\* part_000 154, part_001 1387-1389: the client calls the listener handed to
\* onAuthStateChange when the session changes; the fallback object takes the
\* listener and never calls it
ListenerCalled(a) == a.configured

\* part_000 153: the session getSession answers with: null from the fallback
\* object, the stored session or null from the client
GetSession(configured) == IF configured THEN {"none", "u1"} ELSE {"none"}

\* part_000 155-157: whether signInWithPassword, signUp and signOut answer
\* without error: the fallback object never, the client either way
AuthAnswers(configured) == IF configured THEN BOOLEAN ELSE {FALSE}

\* part_000 155-157: error.message of the fallback object, or of the client
AuthErrorMessage(configured) ==
    IF configured THEN "Invalid login credentials" ELSE "Supabase not configured"

\* AuthContext: onAuthStateChange delivers a session; the loadFavorites
\* effect starts its remote read (MealMatchContext.jsx 47-51)
SignIn ==
    /\ ListenerCalled(auth)
    /\ user = "none"
    /\ Len(loading) < MaxLoads
    /\ user' = "u1"
    /\ loading' = Append(loading, [uid |-> "u1"])
    /\ trail' = NoTrail
    /\ UNCHANGED <<backendVars, asideVars, favorites, favLocal, favRemote, toggles, remoteErrors>>

\* the session ends: the loadFavorites effect reads localStorage
\* (MealMatchContext.jsx 28-45) and the persist effect stores the result
SignOut ==
    /\ ListenerCalled(auth)
    /\ user # "none"
    /\ user' = "none"
    /\ favorites' = LoadLocal(favLocal)
    /\ favLocal' = Persisted("none", LoadLocal(favLocal), favLocal)
    /\ trail' = NoTrail
    /\ UNCHANGED <<backendVars, asideVars, favRemote, loading, toggles, remoteErrors>>

\* the select of loadFavorites resolves (MealMatchContext.jsx 47-66):
\* setFavorites([]) on error, else the rows
LoadDone(i, ok) ==
    /\ i \in 1..Len(loading)
    /\ favorites' = IF ok THEN RemoteFavorites(loading[i].uid) ELSE <<>>
    /\ favLocal' = Persisted(user, favorites', favLocal)
    /\ loading' = RemoveAt(loading, i)
    /\ trail' = NoTrail
    /\ remoteErrors' = (remoteErrors \/ ~ok)
    /\ UNCHANGED <<backendVars, asideVars, user, favRemote, toggles>>

\* toggleFavorite with no user (MealMatchContext.jsx 87-99)
ToggleLocal(summary) ==
    /\ user = "none"
    /\ summary \in Summaries
    /\ LET normalized == normalizeFavorite(summary)
       IN  IF normalized = Null
           THEN UNCHANGED <<favorites, favLocal, trail>>
           ELSE /\ favorites' = ToggleLocalList(favorites, normalized)
                /\ favLocal' = Persisted(user, favorites', favLocal)
                /\ trail' = TrailEnd(TrailStart(buildFavoriteKey(normalized), "local",
                                                KeysOf(favorites), UniqueKeys(favorites)),
                                     KeysOf(favorites'))
    /\ UNCHANGED <<backendVars, asideVars, user, favRemote, loading, toggles, remoteErrors>>

\* an insert although the entry shown came from the remote table
RemoteOpAlwaysInsert(favs, key) == [op |-> "insert", sid |-> 0]

\* MealMatchContext.jsx 100-106: delete when the entry found carries
\* _supabaseId, else insert
RemoteOp(favs, key) ==
    IF HasKey(favs, key) /\ "sid" \in DOMAIN FindByKey(favs, key)
    THEN [op |-> "delete", sid |-> FindByKey(favs, key).sid]
    ELSE [op |-> "insert", sid |-> 0]

\* toggleFavorite with a user: the write is sent (MealMatchContext.jsx 100-118)
ToggleStart(summary) ==
    /\ user # "none"
    /\ summary \in Summaries
    /\ normalizeFavorite(summary) # Null
    /\ Len(toggles) < MaxInflight
    /\ LET normalized == normalizeFavorite(summary)
           key == buildFavoriteKey(normalized)
           choice == RemoteOp(favorites, key)
       IN  /\ choice.op = "insert" => Cardinality(UsedRowIds) + PendingInserts < MaxRowId
           /\ toggles' = Append(toggles,
                            [key |-> key, fav |-> normalized, uid |-> user,
                             op |-> choice.op, sid |-> choice.sid, step |-> "write"])
           /\ trail' = TrailStart(key, "remote", KeysOf(RemoteFavorites(user)),
                                  UniqueKeys(RemoteFavorites(user)))
    /\ UNCHANGED <<backendVars, asideVars, user, favorites, favLocal, favRemote, loading, remoteErrors>>

\* the delete or insert resolves; an error is logged and the function goes
\* on to the refresh read (MealMatchContext.jsx 101-118)
ToggleWrite(i, ok) ==
    /\ i \in 1..Len(toggles)
    /\ toggles[i].step = "write"
    /\ favRemote' = IF ~ok THEN favRemote
                    ELSE IF toggles[i].op = "delete"
                    THEN DeleteRow(favRemote, toggles[i].sid)
                    ELSE InsertRow(favRemote, toggles[i].uid, toggles[i].fav)
    /\ toggles' = [toggles EXCEPT ![i] = [@ EXCEPT !.step = "read"]]
    /\ trail' = TrailStep(trail, ok)
    /\ remoteErrors' = (remoteErrors \/ ~ok)
    /\ UNCHANGED <<backendVars, asideVars, user, favorites, favLocal, loading>>

\* the refresh select resolves (MealMatchContext.jsx 119-133):
\* setFavorites((data ?? []).map(...)), data being null on error
ToggleRead(i, ok) ==
    /\ i \in 1..Len(toggles)
    /\ toggles[i].step = "read"
    /\ favorites' = IF ok THEN RemoteFavorites(toggles[i].uid) ELSE <<>>
    /\ favLocal' = Persisted(user, favorites', favLocal)
    /\ toggles' = RemoveAt(toggles, i)
    /\ trail' = IF user = toggles[i].uid
                THEN TrailEnd(TrailStep(trail, ok), KeysOf(RemoteFavorites(toggles[i].uid)))
                ELSE NoTrail
    /\ remoteErrors' = (remoteErrors \/ ~ok)
    /\ UNCHANGED <<backendVars, asideVars, user, favRemote, loading>>

FavoritesInit ==
    /\ user = "none"
    /\ favorites = <<>>
    /\ favLocal = <<>>
    /\ favRemote = <<>>
    /\ toggles = <<>>
    /\ loading = <<>>
    /\ trail = NoTrail
    /\ remoteErrors = FALSE

NotCleaned == [none |-> TRUE]

TextInit == text = <<>> /\ cleaned = NotCleaned

NoShopCall == [op |-> "none", items |-> <<>>, before |-> <<>>]

ShopInit == shoppingList = <<>> /\ shopLocal = <<>> /\ shopLast = NoShopCall

PantryInit ==
    /\ homeUser = "unmounted"
    /\ pantryItems = <<>>
    /\ pantryLocal = <<>>
    /\ pantryRemote = <<>>
    /\ pantryOps = <<>>

\* part_000 148-150: createClient when both variables are set, else the
\* fallback object; part_001 1376-1378: the state AuthProvider starts with
AuthStartsWith(configured) ==
    [configured |-> configured, authLoading |-> TRUE, authError |-> "", calls |-> <<>>]

\* the variables are set and getSession has answered
AuthInit == auth = [AuthStartsWith(TRUE) EXCEPT !.authLoading = FALSE]

\* part_001 533-537: the state Home starts with
HomeStartsWith ==
    [loading |-> FALSE, randomLoading |-> FALSE, error |-> "", infoMessage |-> "",
     recipes |-> 0, calls |-> <<>>]

HomeInit == search = HomeStartsWith

ClientInit == FavoritesInit /\ TextInit /\ ShopInit /\ PantryInit /\ AuthInit /\ HomeInit

-----------------------------------------------------------------------------
(* The two sanitizers on one string *)

\* MealMatchContext.jsx 170-175
sanitizeIngredients(input) == JoinComma(FilterNonEmpty(MapTrim(SplitComma(input))))

Chars == {"a", "b", " ", ","}

Texts == UNION {[1..n -> Chars] : n \in 0..MaxText}

\* both sanitizers are called with the string
Sanitize ==
    /\ cleaned = NotCleaned
    /\ cleaned' = [csv |-> sanitizeCsv(Str(text)), ingredients |-> sanitizeIngredients(text)]
    /\ UNCHANGED <<backendVars, user, favVars, shopVars, pantryVars, homeVars, text>>

\* each sanitizer is applied to its own result: the next blur of the
\* ingredients input (part_001 1145), a second pass of sanitizeCsv; and the
\* backend sanitizes the field the frontend sent (server.js 189)
SanitizeAgain ==
    /\ cleaned # NotCleaned
    /\ "again" \notin DOMAIN cleaned
    /\ cleaned' = [csv |-> cleaned.csv, ingredients |-> cleaned.ingredients,
                   again |-> [csv |-> sanitizeCsv(Str(cleaned.csv)),
                              ingredients |-> sanitizeIngredients(cleaned.ingredients),
                              backend |-> sanitizeCsv(Str(cleaned.ingredients))]]
    /\ UNCHANGED <<backendVars, user, favVars, shopVars, pantryVars, homeVars, text>>

-----------------------------------------------------------------------------
(* The shopping list (MealMatchContext.jsx 15-24, 77-80, 136-148) *)

\* ingredient texts; "" stands for every falsy item (undefined, null, '')
ItemTexts == {"", "egg", "Egg", "milk"}

ItemLists == UNION {[1..n -> ItemTexts] : n \in 0..MaxItems}

Has(seq, x) == \E i \in 1..Len(seq) : seq[i] = x

Distinct(seq) == \A i \in 1..Len(seq), j \in 1..Len(seq) : seq[i] = seq[j] => i = j

\* what the store can have written under mealMatchShoppingList
StoredShopLists ==
    {list \in UNION {[1..n -> ItemTexts \ {""}] : n \in 0..(Cardinality(ItemTexts) - 1)} :
        Distinct(list)}

\* Array.from(new Set(seq)): the first occurrence of each value, in order
RECURSIVE FromSet(_)
FromSet(seq) ==
    IF seq = <<>> THEN <<>>
    ELSE LET front == FromSet(SubSeq(seq, 1, Len(seq) - 1))
             last == seq[Len(seq)]
         IN  IF Has(front, last) THEN front ELSE Append(front, last)

\* every item appended, present or not
AddedBlindly(prev, items) == prev \o SelectSeq(items, LAMBDA item : item # "")

\* the updater of addShoppingItems (MealMatchContext.jsx 137-141)
Added(prev, items) == FromSet(prev \o SelectSeq(items, LAMBDA item : item # ""))

\* the updater of removeShoppingItem (MealMatchContext.jsx 145)
Removed(prev, item) == SelectSeq(prev, LAMBDA entry : entry # item)

\* MealMatchContext.jsx 77-80: the effect that stores the shopping list,
\* user or no user
ShopPersisted(list) == list

ShopCall(op, items, next) ==
    /\ shoppingList' = next
    /\ shopLocal' = ShopPersisted(next)
    /\ shopLast' = [op |-> op, items |-> items, before |-> shoppingList]
    /\ UNCHANGED <<backendVars, user, favVars, textVars, pantryVars, homeVars>>

addShoppingItems(items) ==
    /\ items \in ItemLists
    /\ ShopCall("add", items, Added(shoppingList, items))

removeShoppingItem(item) ==
    /\ item \in ItemTexts
    /\ ShopCall("remove", <<item>>, Removed(shoppingList, item))

clearShoppingList == ShopCall("clear", <<>>, <<>>)

-----------------------------------------------------------------------------
(* The pantry of the Home page (part_001 539-548, 586-618, 750-811).       *)
(* homeUser is the user the effects of Home last ran for.                  *)

PantryNames == {"rice", "Rice", "egg"}

\* cleaned.split(','): the names sanitizeIngredients leaves, one or more
TokenLists == UNION {[1..n -> PantryNames] : n \in 1..MaxTokens}

\* every token pushed, listed or not
AddTokensBlindly(prev, tokens) == prev \o tokens

\* part_001 786-794: the updater of the signed-out branch
RECURSIVE AddTokens(_, _)
AddTokens(prev, tokens) ==
    IF tokens = <<>> THEN prev
    ELSE AddTokens(IF Head(tokens) # "" /\ ~Has(prev, Head(tokens))
                   THEN Append(prev, Head(tokens))
                   ELSE prev,
                   Tail(tokens))

\* .select('name').eq('user_id', ...).order('inserted_at'); pantryRemote is
\* kept in insertion order
PantryNamesOf(rows, uid) ==
    LET own == SelectSeq(rows, LAMBDA r : r.user_id = uid)
    IN  [i \in 1..Len(own) |-> own[i].name]

\* part_001 772-775: the insert of one token; the table (part_000 117-123)
\* has no unique constraint
InsertName(rows, uid, token) == Append(rows, [user_id |-> uid, name |-> token])

\* .delete().eq('user_id', user.id).eq('name', item)
DeleteName(rows, uid, item) == SelectSeq(rows, LAMBDA r : ~(r.user_id = uid /\ r.name = item))

\* the effect writes whoever is signed in
PantryPersistedAlways(u, items, stored) == items

\* part_001 614-618: the effect that stores the pantry while no user is
\* signed in
PantryPersisted(u, items, stored) == IF u = "none" THEN items ELSE stored

\* the rows that inserts on their way will add at most
PendingRows ==
    LET Tokens(i) == IF pantryOps[i].step = "write" /\ pantryOps[i].kind = "add"
                     THEN Len(pantryOps[i].tokens) - Len(pantryOps[i].done) ELSE 0
        RECURSIVE Sum(_)
        Sum(i) == IF i = 0 THEN 0 ELSE Tokens(i) + Sum(i - 1)
    IN  Sum(Len(pantryOps))

PantryFrame == UNCHANGED <<backendVars, user, favVars, textVars, shopVars, homeVars>>

\* Home mounts or the user changes: loadPantry (part_001 586-612) reads
\* localStorage when nobody is signed in, else sends its select; on mount the
\* state starts from localStorage (part_001 539-548)
HomeLoad ==
    /\ homeUser # user
    /\ user # "none" => Len(pantryOps) < MaxInflight
    /\ homeUser' = user
    /\ pantryItems' = IF user = "none" \/ homeUser = "unmounted" THEN pantryLocal ELSE pantryItems
    /\ pantryLocal' = PantryPersisted(user, pantryItems', pantryLocal)
    /\ pantryOps' = IF user = "none" THEN pantryOps
                    ELSE Append(pantryOps, [kind |-> "load", uid |-> user,
                                            tokens |-> <<>>, step |-> "read",
                                            done |-> <<>>])
    /\ UNCHANGED pantryRemote
    /\ PantryFrame

\* handleAddPantryItem with no user (part_001 764-767, 786-795)
PantryAddLocal(tokens) ==
    /\ homeUser = user /\ user = "none"
    /\ tokens \in TokenLists
    /\ pantryItems' = AddTokens(pantryItems, tokens)
    /\ pantryLocal' = PantryPersisted(user, pantryItems', pantryLocal)
    /\ UNCHANGED <<homeUser, pantryRemote, pantryOps>>
    /\ PantryFrame

\* handleAddPantryItem with a user: the inserts are sent (part_001 768-780)
PantryAddStart(tokens) ==
    /\ homeUser = user /\ user # "none"
    /\ tokens \in TokenLists
    /\ Len(pantryOps) < MaxInflight
    /\ Len(pantryRemote) + PendingRows + Len(tokens) <= MaxPantryRows
    /\ pantryOps' = Append(pantryOps, [kind |-> "add", uid |-> user,
                                       tokens |-> tokens, step |-> "write",
                                       done |-> <<>>])
    /\ UNCHANGED <<homeUser, pantryItems, pantryLocal, pantryRemote>>
    /\ PantryFrame

\* handleRemovePantryItem with no user (part_001 810)
PantryRemoveLocal(item) ==
    /\ homeUser = user /\ user = "none"
    /\ Has(pantryItems, item)
    /\ pantryItems' = SelectSeq(pantryItems, LAMBDA entry : entry # item)
    /\ pantryLocal' = PantryPersisted(user, pantryItems', pantryLocal)
    /\ UNCHANGED <<homeUser, pantryRemote, pantryOps>>
    /\ PantryFrame

\* handleRemovePantryItem with a user: the delete is sent (part_001 798-803)
PantryRemoveStart(item) ==
    /\ homeUser = user /\ user # "none"
    /\ Has(pantryItems, item)
    /\ Len(pantryOps) < MaxInflight
    /\ pantryOps' = Append(pantryOps, [kind |-> "remove", uid |-> user,
                                       tokens |-> <<item>>, step |-> "write",
                                       done |-> <<>>])
    /\ UNCHANGED <<homeUser, pantryItems, pantryLocal, pantryRemote>>
    /\ PantryFrame

\* the handler goes on as soon as one write has settled
FirstWriteSettled(op) == op.done # <<>>

\* await Promise.all(tokens.map(...)) (part_001 769-780), await of the
\* delete (798-803): every write of the call has settled
WritesSettled(op) == Len(op.done) = Len(op.tokens)

\* one write of a call settles, insert k of an add or the delete of a
\* remove, in any order; an error is logged.  When all have settled the
\* handler goes on to refreshPantryFromSupabase (part_001 769-781, 798-807)
PantryWrite(i, k, ok) ==
    /\ i \in 1..Len(pantryOps)
    /\ pantryOps[i].step = "write"
    /\ k \in 1..Len(pantryOps[i].tokens)
    /\ \A n \in 1..Len(pantryOps[i].done) : pantryOps[i].done[n].k # k
    /\ pantryRemote' =
          IF ~ok THEN pantryRemote
          ELSE IF pantryOps[i].kind = "add"
          THEN InsertName(pantryRemote, pantryOps[i].uid, pantryOps[i].tokens[k])
          ELSE DeleteName(pantryRemote, pantryOps[i].uid, pantryOps[i].tokens[k])
    /\ LET op == [pantryOps[i] EXCEPT !.done = Append(@, [k |-> k, ok |-> ok])]
       IN  pantryOps' = [pantryOps EXCEPT
                            ![i] = [op EXCEPT !.step = IF WritesSettled(op) THEN "read"
                                                       ELSE "write"]]
    /\ UNCHANGED <<homeUser, pantryItems, pantryLocal>>
    /\ PantryFrame

\* a select resolves: that of loadPantry sets [] on error (part_001 598-611),
\* that of refreshPantryFromSupabase leaves the state alone (part_001 750-762)
PantryRead(i, ok) ==
    /\ i \in 1..Len(pantryOps)
    /\ pantryOps[i].step = "read"
    /\ pantryItems' = IF ok THEN PantryNamesOf(pantryRemote, pantryOps[i].uid)
                      ELSE IF pantryOps[i].kind = "load" THEN <<>>
                      ELSE pantryItems
    /\ pantryLocal' = PantryPersisted(user, pantryItems', pantryLocal)
    /\ pantryOps' = RemoveAt(pantryOps, i)
    /\ UNCHANGED <<homeUser, pantryRemote>>
    /\ PantryFrame

\* the page is loaded anew with nobody signed in: every collection starts
\* from localStorage (MealMatchContext.jsx 15-45, part_001 539-548) and the
\* persist effects run
Reload ==
    /\ user = "none"
    /\ NothingInFlight /\ pantryOps = <<>>
    /\ favorites' = LoadLocal(favLocal)
    /\ favLocal' = Persisted(user, favorites', favLocal)
    /\ shoppingList' = shopLocal
    /\ shopLocal' = ShopPersisted(shoppingList')
    /\ shopLast' = NoShopCall
    /\ pantryItems' = pantryLocal
    /\ pantryLocal' = PantryPersisted(user, pantryItems', pantryLocal)
    /\ homeUser' = user
    /\ trail' = NoTrail
    /\ UNCHANGED <<backendVars, textVars, homeVars, user, favRemote, toggles, loading,
                   remoteErrors, pantryRemote, pantryOps>>

\* The sign-in form and the sign-out button.  With the client, a session that
\* starts or ends reaches AuthProvider through its listener (SignIn, SignOut).

AuthKinds == {"signIn", "signUp", "signOut"}

\* init of AuthProvider (part_001 1381-1385): getSession answers,
\* setSession(data.session), setAuthLoading(false); the effects of
\* MealMatchContext run when the user changed with it
GetSessionDone ==
    /\ auth.authLoading
    /\ \E s \in GetSession(auth.configured) :
        /\ s # "none" /\ user = "none" => Len(loading) < MaxLoads
        /\ user' = s
        /\ favorites' = IF s = "none" /\ user # "none" THEN LoadLocal(favLocal) ELSE favorites
        /\ favLocal' = IF s = "none" /\ user # "none"
                       THEN Persisted("none", LoadLocal(favLocal), favLocal)
                       ELSE favLocal
        /\ loading' = IF s # "none" /\ user = "none"
                      THEN Append(loading, [uid |-> s])
                      ELSE loading
        /\ trail' = IF s = user THEN trail ELSE NoTrail
    /\ auth' = [auth EXCEPT !.authLoading = FALSE]
    /\ UNCHANGED <<backendVars, textVars, shopVars, pantryVars, search,
                   favRemote, toggles, remoteErrors>>

\* signIn, signUp (part_001 1395-1411): setAuthError('') and the call to the
\* supabase export; signOut (part_001 1413-1415): the call alone
AuthAttempt(kind) ==
    /\ kind \in AuthKinds
    /\ Len(auth.calls) < MaxInflight
    /\ auth' = [auth EXCEPT !.calls = Append(@, kind),
                            !.authError = IF kind = "signOut" THEN @ ELSE ""]
    /\ UNCHANGED <<backendVars, user, favVars, textVars, shopVars, pantryVars, search>>

\* the call answers: signIn and signUp store the error's message and throw
\* (part_001 1398-1401, 1407-1410), after a call without error the form
\* clears authError (part_001 869-871); signOut looks at nothing
AuthSettle(i, ok) ==
    /\ i \in 1..Len(auth.calls)
    /\ ok \in AuthAnswers(auth.configured)
    /\ auth' = [auth EXCEPT !.calls = RemoveAt(@, i),
                            !.authError = IF auth.calls[i] = "signOut" THEN @
                                          ELSE IF ok THEN ""
                                          ELSE AuthErrorMessage(auth.configured)]
    /\ UNCHANGED <<backendVars, user, favVars, textVars, shopVars, pantryVars, search>>


\* The search form of Home

\* what the ingredients box can hold when the form is submitted
SearchInputs == UNION {[1..n -> Chars] : n \in 0..MaxInput}

\* the cuisine selected when the form is submitted, '' for none
Cuisines == {"", "Italian"}

\* what the request to the backend ends in: fetchJson throws (part_001
\* 557-567), or the payload makes this many cards
SearchOutcomes ==
    {[threw |-> TRUE, cards |-> 0]}
        \cup {[threw |-> FALSE, cards |-> n] : n \in 0..MaxRecipes}

EmptyInputError == "Please enter at least one ingredient."
NoRecipesMessage == "No recipes found."
SearchError == "Something went wrong."
RandomError == "Unable to fetch a random recipe."
NoRandomMessage == "Could not load a random recipe."

\* loading is switched off only when the try block returned
LoadingAfterReturnOnly(ended) == ended = "threw"

\* part_001 714-716, 745-747: finally { setLoading(false) }, however the
\* try block ended ("returned" or "threw")
LoadingAfter(ended) == FALSE

\* handleSearch up to its request (part_001 677-699): with nothing left
\* of the input after sanitizing it sets the error and returns, loading
\* untouched; else setLoading(true) and the request is sent
handleSearch(input, cuisine) ==
    /\ input \in SearchInputs /\ cuisine \in Cuisines
    /\ IF sanitizeIngredients(input) = <<>>
       THEN search' = [search EXCEPT !.error = EmptyInputError, !.infoMessage = "",
                                     !.recipes = 0]
       ELSE /\ Len(search.calls) < MaxInflight
            /\ search' = [search EXCEPT
                            !.loading = TRUE, !.error = "", !.infoMessage = "",
                            !.calls = Append(@, [kind |-> "search", step |-> "fetch",
                                                 cuisine |-> cuisine, cards |-> 0])]
    /\ UNCHANGED <<backendVars, user, favVars, textVars, shopVars, pantryVars, auth>>

\* the rest of handleSearch once its cards are filtered (part_001 702-716)
SearchShown(i, cards) ==
    [search EXCEPT !.recipes = cards,
                   !.infoMessage = IF cards = 0 THEN NoRecipesMessage ELSE @,
                   !.loading = LoadingAfter("returned"),
                   !.calls = RemoveAt(@, i)]

\* the request of handleSearch settles (part_001 700-716): on a throw the
\* error is set; with a cuisine selected applyCuisineFilter sends its own
\* request (part_001 620-622); else the cards are shown
SearchFetched(i, o) ==
    /\ i \in 1..Len(search.calls) /\ o \in SearchOutcomes
    /\ search.calls[i].kind = "search" /\ search.calls[i].step = "fetch"
    /\ search' = IF o.threw
                 THEN [search EXCEPT !.error = SearchError,
                                     !.loading = LoadingAfter("threw"),
                                     !.calls = RemoveAt(@, i)]
                 ELSE IF search.calls[i].cuisine # ""
                 THEN [search EXCEPT !.calls[i].step = "area", !.calls[i].cards = o.cards]
                 ELSE SearchShown(i, o.cards)
    /\ UNCHANGED <<backendVars, user, favVars, textVars, shopVars, pantryVars, auth>>

\* the request of applyCuisineFilter settles (part_001 622-629): the cards
\* of the area are kept, or all of them when it threw
AreaFetched(i, ok, kept) ==
    /\ i \in 1..Len(search.calls)
    /\ search.calls[i].kind = "search" /\ search.calls[i].step = "area"
    /\ kept \in 0..search.calls[i].cards
    /\ ~ok => kept = search.calls[i].cards
    /\ search' = SearchShown(i, kept)
    /\ UNCHANGED <<backendVars, user, favVars, textVars, shopVars, pantryVars, auth>>

\* handleRandomRecipe up to its request (part_001 719-729)
handleRandomRecipe ==
    /\ Len(search.calls) < MaxInflight
    /\ search' = [search EXCEPT
                    !.randomLoading = TRUE, !.error = "", !.infoMessage = "",
                    !.calls = Append(@, [kind |-> "random", step |-> "fetch",
                                         cuisine |-> "", cards |-> 0])]
    /\ UNCHANGED <<backendVars, user, favVars, textVars, shopVars, pantryVars, auth>>

\* the request of handleRandomRecipe settles (part_001 729-747)
RandomFetched(i, o) ==
    /\ i \in 1..Len(search.calls) /\ o \in SearchOutcomes
    /\ search.calls[i].kind = "random"
    /\ search' = IF o.threw
                 THEN [search EXCEPT !.error = RandomError,
                                     !.randomLoading = LoadingAfter("threw"),
                                     !.calls = RemoveAt(@, i)]
                 ELSE [search EXCEPT !.recipes = o.cards,
                                     !.infoMessage = IF o.cards = 0 THEN NoRandomMessage ELSE @,
                                     !.randomLoading = LoadingAfter("returned"),
                                     !.calls = RemoveAt(@, i)]
    /\ UNCHANGED <<backendVars, user, favVars, textVars, shopVars, pantryVars, auth>>

-----------------------------------------------------------------------------
(* The proxy *)

Configs == [spoon : BOOLEAN, usda : BOOLEAN, openai : BOOLEAN]

BackendInit ==
    /\ config \in Configs
    /\ pc = "idle"
    /\ req = BaseReq("none")
    /\ tasks = NoTasks
    /\ payload = NoPayload
    /\ detail = NoDetail
    /\ calls = <<>>
    /\ resp = NoResp
    /\ prompts = {}

Init == BackendInit /\ ClientInit

Next ==
    \/ \E r \in RecipesRequests : RecipesStart(r)
    \/ \E r \in RandomRequests : RandomStart(r)
    \/ \E p \in {"mealdb", "spoonacular"} :
          \E o \in Outcomes(tasks[p].site, 0) : ProviderSettle(p, o)
    \/ FanInRespond
    \/ \E r \in DetailRequests : DetailStart(r)
    \/ \E o \in Outcomes(tasks["single"].site, req.id) : DetailSettle(o)
    \/ CuisinesStart
    \/ AreaStart
    \/ \E r \in QueryRequests("autocomplete") : AutocompleteStart(r)
    \/ \E r \in SearchProxyRequests : SearchProxyStart(r)
    \/ \E r \in QueryRequests("usda") : UsdaStart(r)
    \/ \E o \in Outcomes(tasks["single"].site, req.id) : PassThroughSettle(o)
    \/ \E r \in VideoRequests : VideoStart(r)
    \/ \E o \in Outcomes(tasks["single"].site, req.id) : VideoDetailSettle(o)
    \/ \E o \in Outcomes("openai:videos", 0) : VideoSettle(o)
    \/ NextRequest

Spec == Init /\ [][Next]_vars

(* The client *)

ClientNext ==
    \/ SignIn
    \/ SignOut
    \/ \E i \in 1..MaxLoads, ok \in BOOLEAN : LoadDone(i, ok)
    \/ \E summary \in Summaries : ToggleLocal(summary)
    \/ \E summary \in Summaries : ToggleStart(summary)
    \/ \E i \in 1..MaxInflight, ok \in BOOLEAN : ToggleWrite(i, ok)
    \/ \E i \in 1..MaxInflight, ok \in BOOLEAN : ToggleRead(i, ok)

\* the store starts empty; the proxy, fully configured, is left idle
ClientStart ==
    /\ Init
    /\ config = [spoon |-> TRUE, usda |-> TRUE, openai |-> TRUE]

ClientSpec ==
    /\ ClientStart
    /\ [][ClientNext]_vars

\* toggleFavorite called only when the call before it has returned and no
\* load is under way
SequentialNext ==
    \/ SignIn
    \/ SignOut
    \/ \E i \in 1..MaxLoads, ok \in BOOLEAN : LoadDone(i, ok)
    \/ \E summary \in Summaries : ToggleLocal(summary)
    \/ \E summary \in Summaries : NothingInFlight /\ ToggleStart(summary)
    \/ \E i \in 1..MaxInflight, ok \in BOOLEAN : ToggleWrite(i, ok)
    \/ \E i \in 1..MaxInflight, ok \in BOOLEAN : ToggleRead(i, ok)

SequentialSpec ==
    /\ ClientStart
    /\ [][SequentialNext]_vars

SanitizeStart ==
    /\ BackendInit /\ config = [spoon |-> TRUE, usda |-> TRUE, openai |-> TRUE]
    /\ FavoritesInit /\ ShopInit /\ PantryInit /\ AuthInit /\ HomeInit
    /\ text \in Texts
    /\ cleaned = NotCleaned

SanitizeNext == Sanitize \/ SanitizeAgain

SanitizeSpec == SanitizeStart /\ [][SanitizeNext]_vars

(* The store with nobody signed in *)

LocalNext ==
    \/ Reload
    \/ \E summary \in Summaries : ToggleLocal(summary)
    \/ \E item \in ItemTexts : addShoppingItems(<<item>>)
    \/ \E item \in ItemTexts : removeShoppingItem(item)
    \/ clearShoppingList
    \/ \E tokens \in TokenLists : PantryAddLocal(tokens)
    \/ \E item \in PantryNames : PantryRemoveLocal(item)

LocalSpec == ClientStart /\ [][LocalNext]_vars

(* The pantry, signed in and out, one remote call at a time *)

PantryNext ==
    \/ homeUser = user /\ SignIn
    \/ homeUser = user /\ SignOut
    \/ \E i \in 1..MaxLoads, ok \in BOOLEAN : LoadDone(i, ok)
    \/ pantryOps = <<>> /\ HomeLoad
    \/ \E tokens \in TokenLists : PantryAddLocal(tokens)
    \/ \E tokens \in TokenLists : pantryOps = <<>> /\ PantryAddStart(tokens)
    \/ \E item \in PantryNames : PantryRemoveLocal(item)
    \/ \E item \in PantryNames : pantryOps = <<>> /\ PantryRemoveStart(item)
    \/ \E i \in 1..MaxInflight, k \in 1..MaxTokens, ok \in BOOLEAN : PantryWrite(i, k, ok)
    \/ \E i \in 1..MaxInflight, ok \in BOOLEAN : PantryRead(i, ok)

PantrySpec == ClientStart /\ [][PantryNext]_vars

(* The pantry of a user who stays signed in, one call at a time *)

PantrySyncNext ==
    \/ homeUser = user /\ SignIn
    \/ \E i \in 1..MaxLoads, ok \in BOOLEAN : LoadDone(i, ok)
    \/ HomeLoad
    \/ \E tokens \in TokenLists : pantryOps = <<>> /\ PantryAddStart(tokens)
    \/ \E item \in PantryNames : pantryOps = <<>> /\ PantryRemoveStart(item)
    \/ \E i \in 1..MaxInflight, k \in 1..MaxTokens, ok \in BOOLEAN : PantryWrite(i, k, ok)
    \/ \E i \in 1..MaxInflight, ok \in BOOLEAN : PantryRead(i, ok)

PantrySyncSpec == ClientStart /\ [][PantrySyncNext]_vars

Quiet == NothingInFlight /\ pantryOps = <<>>

OneSummary == [source |-> "mealdb", id |-> StrId(1)]

(* The search form of Home.  A request sent to the backend is answered or *)
(* fails in the end; that is the one thing HomeSearchFair adds.             *)

HomeSearchNext ==
    \/ \E input \in SearchInputs, cuisine \in Cuisines : handleSearch(input, cuisine)
    \/ \E i \in 1..MaxInflight, o \in SearchOutcomes : SearchFetched(i, o)
    \/ \E i \in 1..MaxInflight, ok \in BOOLEAN, kept \in 0..MaxRecipes : AreaFetched(i, ok, kept)
    \/ handleRandomRecipe
    \/ \E i \in 1..MaxInflight, o \in SearchOutcomes : RandomFetched(i, o)

HomeSearchFair ==
    /\ WF_vars(\E i \in 1..MaxInflight, o \in SearchOutcomes : SearchFetched(i, o))
    /\ WF_vars(\E i \in 1..MaxInflight, ok \in BOOLEAN, kept \in 0..MaxRecipes :
                   AreaFetched(i, ok, kept))
    /\ WF_vars(\E i \in 1..MaxInflight, o \in SearchOutcomes : RandomFetched(i, o))

HomeSearchSpec == ClientStart /\ [][HomeSearchNext]_vars /\ HomeSearchFair

(* The account: the app started with or without the Supabase variables,   *)
(* the sign-in form and the sign-out button used at any time, one recipe   *)
(* toggled and one pantry name added, a remote call made when the one      *)
(* before it has returned, every request to a remote table answered        *)
(* without error                                                           *)

AccountNext ==
    \/ GetSessionDone
    \/ \E kind \in AuthKinds : auth.calls = <<>> /\ AuthAttempt(kind)
    \/ \E i \in 1..MaxInflight, ok \in BOOLEAN : AuthSettle(i, ok)
    \/ homeUser = user /\ Quiet /\ SignIn
    \/ homeUser = user /\ Quiet /\ SignOut
    \/ \E i \in 1..MaxLoads : LoadDone(i, TRUE)
    \/ Quiet /\ HomeLoad
    \/ ToggleLocal(OneSummary)
    \/ Quiet /\ ToggleStart(OneSummary)
    \/ \E i \in 1..MaxInflight : ToggleWrite(i, TRUE)
    \/ \E i \in 1..MaxInflight : ToggleRead(i, TRUE)
    \/ PantryAddLocal(<<"egg">>)
    \/ Quiet /\ PantryAddStart(<<"egg">>)
    \/ \E i \in 1..MaxInflight : PantryWrite(i, 1, TRUE)
    \/ \E i \in 1..MaxInflight : PantryRead(i, TRUE)

AccountStart ==
    /\ BackendInit /\ config = [spoon |-> TRUE, usda |-> TRUE, openai |-> TRUE]
    /\ FavoritesInit /\ TextInit /\ ShopInit /\ PantryInit /\ HomeInit
    /\ \E configured \in BOOLEAN : auth = AuthStartsWith(configured)

AccountSpec == AccountStart /\ [][AccountNext]_vars

(* The three collections together, signed in and out: one recipe, one     *)
(* shopping item and one pantry name, a remote call made when the one      *)
(* before it has returned, every request answered without error            *)

StoreNext ==
    \/ homeUser = user /\ SignIn
    \/ homeUser = user /\ SignOut
    \/ \E i \in 1..MaxLoads : LoadDone(i, TRUE)
    \/ ToggleLocal(OneSummary)
    \/ Quiet /\ ToggleStart(OneSummary)
    \/ \E i \in 1..MaxInflight : ToggleWrite(i, TRUE)
    \/ \E i \in 1..MaxInflight : ToggleRead(i, TRUE)
    \/ addShoppingItems(<<"egg">>)
    \/ removeShoppingItem("egg")
    \/ clearShoppingList
    \/ HomeLoad
    \/ PantryAddLocal(<<"rice">>)
    \/ Quiet /\ PantryAddStart(<<"rice">>)
    \/ PantryRemoveLocal("rice")
    \/ Quiet /\ PantryRemoveStart("rice")
    \/ \E i \in 1..MaxInflight : PantryWrite(i, 1, TRUE)
    \/ \E i \in 1..MaxInflight : PantryRead(i, TRUE)

StoreSpec == ClientStart /\ [][StoreNext]_vars

(* The shopping list on its own *)

ShoppingNext ==
    \/ \E items \in ItemLists : addShoppingItems(items)
    \/ \E item \in ItemTexts : removeShoppingItem(item)
    \/ clearShoppingList

\* the provider mounts with a list an earlier visit stored
ShoppingStart ==
    /\ BackendInit /\ config = [spoon |-> TRUE, usda |-> TRUE, openai |-> TRUE]
    /\ FavoritesInit /\ TextInit /\ PantryInit /\ AuthInit /\ HomeInit
    /\ shopLocal \in StoredShopLists
    /\ shoppingList = shopLocal
    /\ shopLast = NoShopCall

ShoppingSpec == ShoppingStart /\ [][ShoppingNext]_vars

-----------------------------------------------------------------------------
(* Properties of the proxy *)

Providers == {"mealdb", "spoonacular"}

Queried(p) == tasks[p].st # "none"

\* the recipes a provider's answer holds, as the provider sent them
ProviderRecipes(task) ==
    IF task.outcome.k # "ok" THEN <<>>
    ELSE CASE task.site \in {"mealdb:filter", "mealdb:random"} ->
                NullishOrEmpty(task.outcome.body.meals)
           [] task.site = "spoon:findByIngredients" -> ArrayOrEmpty(task.outcome.body)
           [] task.site = "spoon:complexSearch" -> ArrayOrEmpty(task.outcome.body.results)
           [] task.site = "spoon:random" -> NullishOrEmpty(task.outcome.body.recipes)
           [] OTHER -> <<>>

\* a search of both providers has been answered, f failed and g returned
\* at least one recipe
IsolatedFailureCase(f, g) ==
    /\ pc = "sent"
    /\ req.ep = "recipes"
    /\ f # g
    /\ Queried(f) /\ Queried(g)
    /\ tasks[f].failed
    /\ ~tasks[g].failed
    /\ Len(ProviderRecipes(tasks[g])) >= 1

\* C1 as stated: when one provider of a two-provider search fails and the
\* other returns at least one recipe, the response is 200, carries the
\* other provider's recipes exactly as the provider sent them, and errors
\* has an entry for the failing provider only.
C1_RecipesUnchanged ==
    \A f \in Providers, g \in Providers :
        IsolatedFailureCase(f, g) =>
            /\ resp.status = 200
            /\ resp.json
            /\ resp.body[g] = ProviderRecipes(tasks[g])
            /\ DOMAIN resp.body.errors = {f}

\* C1 amended: as above, and the response carries the other provider's
\* recipes in the order sent, unchanged for TheMealDB and findByIngredients
\* and each reduced to its card fields by mapComplexSearchResult for
\* complexSearch.
C1_FailureIsolated ==
    \A f \in Providers, g \in Providers :
        IsolatedFailureCase(f, g) =>
            /\ resp.status = 200
            /\ resp.json
            /\ resp.body[g] =
                  IF tasks[g].site = "spoon:complexSearch"
                  THEN MapSeq(ProviderRecipes(tasks[g]), mapComplexSearchResult)
                  ELSE ProviderRecipes(tasks[g])
            /\ DOMAIN resp.body.errors = {f}

C1_Witness ==
    /\ IsolatedFailureCase("mealdb", "spoonacular")
    /\ tasks["spoonacular"].site = "spoon:complexSearch"
    /\ tasks["mealdb"].outcome = Http(500)
    /\ resp.status = 200

\* the payload a search or random response carries
CarriedPayload == IF resp.status = 200 THEN resp.body ELSE resp.body.details

FanInAnswered ==
    /\ pc = "sent"
    /\ req.ep \in {"recipes", "random"}
    /\ \E p \in Providers : Queried(p)

\* C2: a search or random response is 502 when both arrays are empty and an
\* error was recorded, 404 when both are empty and none was, else 200.
C2_FanInStatus ==
    FanInAnswered =>
        /\ resp.json
        /\ resp.status \in {200, 404, 502}
        /\ LET p == CarriedPayload
               bothEmpty == p.mealdb = <<>> /\ p.spoonacular = <<>>
               recorded == \E q \in Providers : tasks[q].failed
           IN  /\ p = payload
               /\ DOMAIN p.errors = {q \in Providers : tasks[q].failed}
               /\ resp.status = 502 <=> (bothEmpty /\ recorded)
               /\ resp.status = 404 <=> (bothEmpty /\ ~recorded)
               /\ resp.status = 200 <=> ~bothEmpty

C2_Witness ==
    /\ FanInAnswered
    /\ req.ep = "random"
    /\ Queried("mealdb") /\ Queried("spoonacular")
    /\ resp.status = 502
    /\ tasks["mealdb"].outcome = Ok([meals |-> JNull])
    /\ tasks["spoonacular"].failed

SearchSucceeded == pc = "sent" /\ req.ep = "recipes" /\ resp.status = 200

\* C3 as stated: each side of a successful search response is a non-empty
\* array or has an entry in errors.
C3_NoSilentEmptySide ==
    SearchSucceeded =>
        \A p \in Providers : resp.body[p] # <<>> \/ p \in DOMAIN resp.body.errors

\* C3 amended: a successful search response has at least one non-empty
\* array, and a side that is empty without an entry in errors is that of a
\* provider that was not queried or that answered without any recipe.
C3_EmptySideExplained ==
    SearchSucceeded =>
        /\ \E p \in Providers : resp.body[p] # <<>>
        /\ \A p \in Providers :
              \/ resp.body[p] # <<>>
              \/ p \in DOMAIN resp.body.errors
              \/ ~Queried(p)
              \/ (~tasks[p].failed /\ ProviderRecipes(tasks[p]) = <<>>)

C3_Witness ==
    /\ SearchSucceeded
    /\ Queried("mealdb") /\ Queried("spoonacular")
    /\ resp.body.mealdb = <<>>
    /\ tasks["mealdb"].outcome = Ok([meals |-> JNull])
    /\ DOMAIN resp.body.errors = {}

\* the provider was reached and answered that it has no such recipe
NotFoundAnswer(task) ==
    \/ task.site = "mealdb:lookup" /\ task.outcome = Ok([meals |-> JNull])
    \/ task.site = "spoon:information" /\ task.outcome = Http(404)

\* C6: detail for an id the specified provider does not have is answered
\* 404 {error: "Recipe not found"}, for either provider, and an upstream
\* failure is answered 502.
C6_UnknownIdIs404 ==
    (pc = "sent" /\ req.ep = "detail") =>
        /\ NotFoundAnswer(tasks["single"]) =>
              (resp.status = 404 /\ resp.body = [error |-> "Recipe not found"])
        /\ tasks["single"].outcome \in FailureOutcomes => resp.status = 502

\* C7: every request ends in a JSON response of status 200, 400, 404 or
\* 502; no exception reaches the framework's error handler.
C7_AlwaysStructured ==
    pc = "sent" => (resp.json /\ resp.status \in {200, 400, 404, 502})

\* the request leaves out a parameter its endpoint requires
OmitsRequired(r) ==
    \/ r.ep = "recipes" /\ ~IsArr(r.ingredients) /\ sanitizeCsv(r.ingredients) = <<>>
    \/ r.ep \in {"autocomplete", "usda"} /\ IsAbsent(r.query)
    \/ r.ep = "spsearch" /\ IsAbsent(r.query) /\ IsAbsent(r.diet) /\ IsAbsent(r.intolerances)
    \/ r.ep = "video" /\ IsAbsent(r.recipeId)

\* C8: a request that omits a required parameter is answered 400 with an
\* {error} body, and no upstream request is issued.
C8_MissingParameter400 ==
    (pc = "sent" /\ OmitsRequired(req)) =>
        /\ resp.status = 400
        /\ resp.json
        /\ DOMAIN resp.body = {"error"}
        /\ calls = <<>>

\* the call sites the handler reached
Started == {t \in DOMAIN tasks : tasks[t].st # "none"}

\* the request had one call site and that call failed: the upstream
\* answered with an error status, the fetch was rejected, or the credential
\* it needs is not configured
OnlyCallFailed ==
    /\ pc = "sent"
    /\ req.ep \in {"detail", "autocomplete", "spsearch", "usda", "cuisines", "area",
                   "recipes", "random"}
    /\ req.ep = "detail" => tasks["single"].site = "spoon:information"
    /\ \E t \in Started : Started = {t} /\ tasks[t].failed

\* C9: a request whose only upstream call fails, or needs a credential that
\* is not configured, is answered 502 with a JSON {error: message} body.
C9_UpstreamFailure502 ==
    OnlyCallFailed =>
        /\ resp.status = 502
        /\ resp.json
        /\ "error" \in DOMAIN resp.body
        /\ resp.body.error # ""

C9_Witness ==
    /\ OnlyCallFailed
    /\ req.ep = "detail"
    /\ ~config.spoon
    /\ calls = <<>>
    /\ resp = Json(502, [error |-> "Spoonacular API key is not configured"])

Count(seq, x) == Cardinality({i \in 1..Len(seq) : seq[i] = x})

\* C10: over one request each provider endpoint is called at most once, a
\* failed call is not sent again, and a search calls exactly one of
\* complexSearch (diet or intolerances set) or findByIngredients.
C10_SingleAttempt ==
    /\ \A i \in 1..Len(calls) : Count(calls, calls[i]) = 1
    /\ \A t \in Started : Count(calls, tasks[t].site) = IF tasks[t].issued THEN 1 ELSE 0
    /\ Len(calls) = Cardinality({t \in Started : tasks[t].issued})
    /\ (req.ep = "recipes" /\ Queried("spoonacular") /\ tasks["spoonacular"].issued) =>
          /\ Count(calls, "spoon:complexSearch") + Count(calls, "spoon:findByIngredients") = 1
          /\ Count(calls, "spoon:complexSearch") = 1
                <=> (Truthy(req.diet) \/ Truthy(req.intolerances))

C10_Witness ==
    /\ pc = "sent"
    /\ req.ep = "recipes"
    /\ tasks["spoonacular"].failed
    /\ tasks["spoonacular"].outcome = Net
    /\ tasks["mealdb"].failed
    /\ calls = <<"mealdb:filter", "spoon:complexSearch">>

\* C11: for search and random the response is sent only once every started
\* provider task has settled, and a task that settles with an error leaves
\* the response unsent and the other task as it was while that one is
\* pending.
C11_ResponseAfterAllSettled ==
    [][(pc = "await" /\ req.ep \in {"recipes", "random"}) =>
          /\ resp' # resp => \A p \in Providers : tasks[p].st # "pending"
          /\ \A p \in Providers, q \in Providers :
                (/\ p # q
                 /\ tasks[p].st = "pending" /\ tasks'[p].st = "settled" /\ tasks'[p].failed
                 /\ tasks[q].st = "pending")
                => (resp' = NoResp /\ pc' = "await" /\ tasks'[q] = tasks[q])]_vars

C11_Witness ==
    /\ pc = "await"
    /\ req.ep = "recipes"
    /\ tasks["mealdb"].st = "settled" /\ tasks["mealdb"].failed
    /\ tasks["spoonacular"].st = "pending" /\ tasks["spoonacular"].issued
    /\ resp = NoResp

\* the providers a search with this source parameter queries
QueriedBySearch(source) ==
    {p \in Providers :
        RecipesTasks([BaseReq("recipes") EXCEPT !.source = source])[p].st # "none"}

RandomHandled == req.ep = "random" /\ pc \in {"await", "sent"}

\* one provider of a two-provider random request failed, the other returned
\* a recipe: the response is 200 with that recipe and an errors entry for
\* the failing provider only
RandomFailureIsolated ==
    \A f \in Providers, g \in Providers :
        (/\ pc = "sent" /\ f # g
         /\ Queried(f) /\ Queried(g)
         /\ tasks[f].failed /\ ~tasks[g].failed
         /\ Len(ProviderRecipes(tasks[g])) >= 1)
        => /\ resp = Json(200, payload)
           /\ payload[g] = ProviderRecipes(tasks[g])
           /\ DOMAIN payload.errors = {f}

\* C12 as stated: a random request queries the providers a search with the
\* same source parameter queries, also when the parameter is left out, with
\* the same isolation of one provider's failure.
C12_SameFanOutAsSearch ==
    RandomHandled =>
        /\ {p \in Providers : Queried(p)} = QueriedBySearch(req.source)
        /\ RandomFailureIsolated

\* C12 amended: a random request queries the providers a search with the
\* same source parameter queries whenever the parameter is given; with the
\* parameter left out it queries TheMealDB only, where a search queries
\* both.  One provider's failure is isolated as in a search.
C12_SameFanOutForGivenSource ==
    RandomHandled =>
        /\ ~IsAbsent(req.source) =>
              {p \in Providers : Queried(p)} = QueriedBySearch(req.source)
        /\ IsAbsent(req.source) =>
              /\ {p \in Providers : Queried(p)} = {"mealdb"}
              /\ QueriedBySearch(req.source) = Providers
        /\ RandomFailureIsolated

C12_Witness ==
    /\ RandomHandled
    /\ pc = "sent"
    /\ req.source = Str("both")
    /\ tasks["mealdb"].failed
    /\ Len(ProviderRecipes(tasks["spoonacular"])) = 1
    /\ resp.status = 200

VideoAnswered == pc = "sent" /\ req.ep = "video"

\* the recipe of a video request was resolved and has ingredients and steps
VideoRecipeReady ==
    /\ VideoAnswered
    /\ tasks["single"].st = "settled"
    /\ ~tasks["single"].failed
    /\ LET d == getMealDetail(tasks["single"], tasks["single"].outcome)
       IN  /\ d.t = "val"
           /\ normalizeMealIngredients(d.v.meal, d.v.source) # <<>>
           /\ normalizeMealSteps(d.v.meal, d.v.source) # <<>>

PreviewAnswer ==
    /\ resp.json /\ resp.status = 200
    /\ DOMAIN resp.body = {"prompt", "video", "preview", "missingApiKey"}
    /\ resp.body.preview = TRUE
    /\ resp.body.prompt # JNull
    /\ resp.body.prompt \in {b.prompt : b \in prompts}

C14_VideoCallOnlyWhenAsked ==
    req.ep = "video" =>
        /\ (req.preview \/ ~config.openai) =>
              (tasks["video"].st = "none" /\ Count(calls, "openai:videos") = 0)
        /\ (pc = "sent" /\ tasks["video"].st = "settled" /\ tasks["video"].failed) =>
              /\ resp.json /\ resp.status = 502
              /\ "prompt" \in DOMAIN resp.body
              /\ resp.body.prompt # JNull
              /\ resp.body.prompt \in {b.prompt : b \in prompts}

C14_Witness ==
    /\ VideoAnswered
    /\ tasks["video"].failed
    /\ tasks["video"].outcome = Http(500)
    /\ resp.status = 502
    /\ calls = <<"mealdb:lookup", "openai:videos">>

NamedProvider(p) == IF IsStr(p) THEN ToLowerCase(p.v) ELSE ""

\* C22: a detail request whose source is mealdb or spoonacular in any letter
\* case queries only that provider, a successful response carries that
\* provider in its source field, and no detail request queries both
\* providers.
C22_DetailFromNamedProvider ==
    req.ep = "detail" =>
        /\ ~(Count(calls, "mealdb:lookup") > 0 /\ Count(calls, "spoon:information") > 0)
        /\ Len(calls) <= 1
        /\ NamedProvider(req.source) = "mealdb" =>
              \A i \in 1..Len(calls) : calls[i] = "mealdb:lookup"
        /\ NamedProvider(req.source) = "spoonacular" =>
              \A i \in 1..Len(calls) : calls[i] = "spoon:information"
        /\ (NamedProvider(req.source) \in {"mealdb", "spoonacular"}
               /\ pc = "sent" /\ resp.status = 200) =>
              resp.body.source = NamedProvider(req.source)

\* source=SPOONACULAR was answered from Spoonacular
C22_Witness ==
    /\ req.ep = "detail"
    /\ req.source = Str("SPOONACULAR")
    /\ pc = "sent"
    /\ resp.status = 200
    /\ resp.body.source = "spoonacular"
    /\ calls = <<"spoon:information">>

OtherProvider(p) == IF p = "mealdb" THEN "spoonacular" ELSE "mealdb"

\* C24: whichever provider task of a search or random request completes, and
\* whether the other one is pending, settled or not started, it sets its own
\* result array and its own errors key from its own outcome and leaves the
\* source, the other array and the other errors key as they were; the body
\* sent is the payload so built, hence the same for either order.
C24_BodyIndependentOfOrder ==
    [][(pc = "await" /\ req.ep \in {"recipes", "random"}) =>
          /\ \A p \in Providers :
                (tasks[p].st = "pending" /\ tasks'[p].st = "settled") =>
                    LET q == OtherProvider(p)
                        result == withSafeFetch(tasks'[p], tasks'[p].outcome)
                    IN  /\ payload'.source = payload.source
                        /\ payload'[q] = payload[q]
                        /\ q \in DOMAIN payload'.errors <=> q \in DOMAIN payload.errors
                        /\ q \in DOMAIN payload.errors =>
                              payload'.errors[q] = payload.errors[q]
                        /\ payload'[p] = IF result.t = "err" THEN <<>>
                                         ELSE Extract(tasks[p].site, result.v)
                        /\ p \in DOMAIN payload'.errors
                              <=> (result.t = "err" /\ result.error # "")
                        /\ p \in DOMAIN payload'.errors =>
                              payload'.errors[p] = result.error
          /\ resp' # resp =>
                /\ payload' = payload
                /\ (IF resp'.status = 200 THEN resp'.body ELSE resp'.body.details) = payload]_vars

\* the Spoonacular task has completed while the TheMealDB task is pending
C24_Witness ==
    /\ pc = "await"
    /\ req.ep = "recipes"
    /\ tasks["spoonacular"].st = "settled" /\ Len(payload.spoonacular) > 0
    /\ tasks["mealdb"].st = "pending"

ProviderSites(p) ==
    IF p = "mealdb" THEN {"mealdb:filter", "mealdb:random"}
    ELSE {"spoon:findByIngredients", "spoon:complexSearch", "spoon:random"}

\* the source parameter is given and names none of mealdb, spoonacular, both
UnknownSource(p) ==
    /\ ~IsAbsent(p)
    /\ ToLowerCase(ToStringJs(p)) \notin {"mealdb", "spoonacular", "both"}

\* C28: a search or random request with source=mealdb or source=spoonacular
\* starts no task for the other provider, sends it no request, and leaves
\* its result array empty and its errors key absent; a request whose source
\* is none of mealdb, spoonacular, both asks both providers.
C28_RestrictedToOneProvider ==
    req.ep \in {"recipes", "random"} =>
        /\ \A p \in Providers :
              NamedProvider(req.source) = p =>
                  /\ ~Queried(OtherProvider(p))
                  /\ \A i \in 1..Len(calls) : calls[i] \notin ProviderSites(OtherProvider(p))
                  /\ payload[OtherProvider(p)] = <<>>
                  /\ OtherProvider(p) \notin DOMAIN payload.errors
                  /\ (pc = "sent" /\ resp.status \in {200, 404, 502}) =>
                        /\ CarriedPayload[OtherProvider(p)] = <<>>
                        /\ OtherProvider(p) \notin DOMAIN CarriedPayload.errors
        /\ (UnknownSource(req.source) /\ payload.source # "none") =>
              /\ payload.source = "both"
              /\ Queried("mealdb") /\ Queried("spoonacular")

\* source=spoonacular returned recipes and TheMealDB was left out
C28_Witness ==
    /\ req.ep = "recipes"
    /\ req.source = Str("spoonacular")
    /\ pc = "sent" /\ resp.status = 200
    /\ Len(payload.spoonacular) > 0
    /\ payload.mealdb = <<>>
    /\ calls = <<"spoon:findByIngredients">>

-----------------------------------------------------------------------------
(* Properties of the client state store *)

\* two toggles of one recipe have run one after the other, nothing in
\* between, on a favorite set whose keys were unique
ToggledTwice == trail.n = 2 /\ trail.unique

C5_FavoriteKeysUnique ==
    /\ UniqueKeys(favLocal)
    /\ UniqueKeys(RemoteFavorites("u1"))

\* the same while every request to the remote table has succeeded: what is
\* left to break it is toggleFavorite calls that overlap
UniqueWhileRequestsSucceed == ~remoteErrors => C5_FavoriteKeysUnique

FromRemoteRow(favorite) == "sid" \in DOMAIN favorite

\* C25: the value stored under mealMatchFavorites never holds an entry that
\* came from a row of the remote table (one that carries _supabaseId),
\* whatever the interleaving of sign-in, sign-out, loads and toggles.
C25_NoRemoteRowInLocalStorage ==
    \A i \in 1..Len(favLocal) : ~FromRemoteRow(favLocal[i])

\* the same with every request answered without error
C25_NoRemoteRowInLocalStorageWhenNoError ==
    ~remoteErrors => C25_NoRemoteRowInLocalStorage

\* MealMatchContext.jsx 82-85
favoriteIds == KeysOf(favorites)

\* a toggleFavorite call of a signed-in user has sent its write
ToggleSent == user # "none" /\ Len(toggles') = Len(toggles) + 1

\* C26: while signed in, a toggle of a recipe whose key is in favoriteIds
\* sends a delete and never an insert, also between sign-in and the arrival
\* of the remote favorites.
C26_ShownFavoriteIsDeleted ==
    [][ToggleSent =>
          (toggles'[Len(toggles')].key \in favoriteIds
              => toggles'[Len(toggles')].op = "delete")]_vars

\* the same for a recipe whose entry in memory came from the remote table
C26_LoadedFavoriteIsDeleted ==
    [][ToggleSent =>
          ((/\ HasKey(favorites, toggles'[Len(toggles')].key)
            /\ FromRemoteRow(FindByKey(favorites, toggles'[Len(toggles')].key)))
              => toggles'[Len(toggles')].op = "delete")]_vars

\* C27: while signed in with no toggle and no load in flight, the favorites
\* in memory have the keys of the user's rows in the remote table, also
\* after a request of a toggle returned an error.
C27_FavoritesMatchTable ==
    (user # "none" /\ NothingInFlight) =>
        KeysOf(favorites) = KeysOf(RemoteFavorites(user))

\* the same as long as no request has returned an error
C27_FavoritesMatchTableWhenNoError ==
    (user # "none" /\ NothingInFlight /\ ~remoteErrors) =>
        KeysOf(favorites) = KeysOf(RemoteFavorites(user))

-----------------------------------------------------------------------------
(* Properties of the sanitizers *)

\* the pieces of the string that hold more than whitespace, trimmed, in order
KeptPieces(s) ==
    MapTrim(SelectSeq(SplitComma(s), LAMBDA piece : \E i \in 1..Len(piece) : piece[i] # " "))

\* C16: sanitizeCsv returns the comma-join, in order, of exactly the pieces
\* of its input that are non-empty after trimming, and sanitizeIngredients
\* returns the same string.
C16_SanitizeKeepsNonEmptyPieces ==
    cleaned # NotCleaned =>
        /\ KeptPieces(text) = <<>> => cleaned.csv = <<>>
        /\ KeptPieces(text) # <<>> => SplitComma(cleaned.csv) = KeptPieces(text)
        /\ cleaned.ingredients = cleaned.csv

\* "a, , b," yields "a,b"
C16_Witness ==
    /\ text = <<"a", ",", " ", ",", " ", "b", ",">>
    /\ cleaned # NotCleaned
    /\ cleaned.csv = <<"a", ",", "b">>
    /\ cleaned.ingredients = <<"a", ",", "b">>

\* C30: sanitizing is idempotent: a sanitized string handed to
\* sanitizeIngredients again, or to sanitizeCsv on the backend, comes back
\* unchanged.
C30_SanitizeIdempotent ==
    (cleaned # NotCleaned /\ "again" \in DOMAIN cleaned) =>
        /\ cleaned.again.ingredients = cleaned.ingredients
        /\ cleaned.again.csv = cleaned.csv
        /\ cleaned.again.backend = cleaned.ingredients

\* " a , ,b" was changed by the first pass and not by the second
C30_Witness ==
    /\ text = <<" ", "a", " ", ",", " ", ",", "b">>
    /\ cleaned # NotCleaned /\ "again" \in DOMAIN cleaned
    /\ cleaned.ingredients = <<"a", ",", "b">>
    /\ cleaned.again.ingredients = <<"a", ",", "b">>
    /\ cleaned.again.csv = <<"a", ",", "b">>

-----------------------------------------------------------------------------
(* Properties of the shopping list *)

\* the place of the first x in seq
Pos(seq, x) == CHOOSE i \in 1..Len(seq) : seq[i] = x /\ \A j \in 1..(i - 1) : seq[j] # x

KeepsOrder(before, after) ==
    \A x \in ItemTexts, y \in ItemTexts :
        (Has(before, x) /\ Has(before, y) /\ Has(after, x) /\ Has(after, y)
            /\ Pos(before, x) < Pos(before, y))
        => Pos(after, x) < Pos(after, y)

\* C20: started from a stored list without duplicates, the shopping list
\* never holds two identical strings nor an empty entry; a call keeps the
\* relative order of the entries that were there; addShoppingItems keeps
\* every entry; removeShoppingItem(x) removes x and keeps every other entry.
C20_ShoppingListDeduplicated ==
    /\ Distinct(shoppingList)
    /\ ~Has(shoppingList, "")
    /\ KeepsOrder(shopLast.before, shoppingList)
    /\ shopLast.op = "add" =>
          \A e \in ItemTexts : Has(shopLast.before, e) => Has(shoppingList, e)
    /\ shopLast.op = "remove" =>
          /\ ~Has(shoppingList, shopLast.items[1])
          /\ \A e \in ItemTexts \ {shopLast.items[1]} :
                Has(shopLast.before, e) <=> Has(shoppingList, e)

\* the entry between two others was removed from a list that holds "egg"
\* and "Egg"
C20_Witness ==
    /\ shopLast.op = "remove"
    /\ Len(shopLast.before) = 3
    /\ shopLast.before[2] = shopLast.items[1]
    /\ Has(shoppingList, "egg") /\ Has(shoppingList, "Egg")

-----------------------------------------------------------------------------
(* Properties of the collections *)

CaseDistinct(names) ==
    \A i \in 1..Len(names), j \in 1..Len(names) :
        ToLowerCase(names[i]) = ToLowerCase(names[j]) => i = j

\* C19: after any sequence of pantry adds and removes, with or without a
\* user, the pantry never holds two entries that are equal when compared
\* case-insensitively: not in memory, not under mealMatchPantry, not among
\* the user's rows of pantry_items.
C19_PantryCaseInsensitiveKeys ==
    /\ CaseDistinct(pantryItems)
    /\ CaseDistinct(pantryLocal)
    /\ CaseDistinct(PantryNamesOf(pantryRemote, "u1"))

\* the duplicate arises with nobody signed in and nothing sent
C19_LocalPantryCaseInsensitiveKeys ==
    (pantryRemote = <<>> /\ user = "none") => CaseDistinct(pantryLocal)

\* the duplicate arises in the table with no request failed
C19_RemotePantryCaseInsensitiveKeys ==
    CaseDistinct(PantryNamesOf(pantryRemote, "u1"))

-----------------------------------------------------------------------------
(* Properties of the account *)

\* no call of MealMatchContext or Home is waiting for a remote table
NoRemoteCall == toggles = <<>> /\ loading = <<>> /\ pantryOps = <<>>

\* C21: started without the Supabase variables, the app stays local-only
\* whatever is tried in the sign-in form and with the sign-out button: the
\* user is null, no favorites or pantry call waits for a remote table or has
\* had an answer from one, and the favorites and the pantry shown are the
\* ones held in localStorage.
C21_LocalOnlyWithoutSupabase ==
    ~auth.configured =>
        /\ user = "none"
        /\ NoRemoteCall
        /\ ~remoteErrors
        /\ favRemote = <<>> /\ pantryRemote = <<>>
        /\ favLocal = favorites
        /\ homeUser # "unmounted" => pantryLocal = pantryItems

\* without the variables, a sign-in was tried and refused, and a favorite
\* and a pantry name were stored afterwards
C21_Witness ==
    /\ ~auth.configured
    /\ ~auth.authLoading
    /\ auth.authError = "Supabase not configured"
    /\ auth.calls = <<"signOut">>
    /\ favorites # <<>> /\ favLocal = favorites
    /\ pantryItems = <<"egg">> /\ pantryLocal = pantryItems

-----------------------------------------------------------------------------
(* Properties of the search form *)

InFlight(kind) == \E i \in 1..Len(search.calls) : search.calls[i].kind = kind

\* C29: loading is true only while a search is waiting for the backend, and
\* once true it becomes false again, whether the search ends with cards,
\* with none or with an error; a search with empty input does not set it.
\* The same for randomLoading and the random-recipe request.
C29_LoadingEnds ==
    /\ [](search.loading => InFlight("search"))
    /\ [](search.randomLoading => InFlight("random"))
    /\ search.loading ~> ~search.loading
    /\ search.randomLoading ~> ~search.randomLoading

\* a search failed and loading is false again, while a second one is still
\* waiting for the area request of its cuisine filter
C29_Witness ==
    /\ ~search.loading
    /\ search.error = SearchError
    /\ Len(search.calls) = 1
    /\ search.calls[1].kind = "search" /\ search.calls[1].step = "area"

====
